---- MODULE Spec2Model ----
(***************************************************************************)
(* State-machine model of the AVR drivers of the EER hardware abstraction  *)
(* layer: I2C (TWI) master transactions, UART receive interrupt and ring   *)
(* buffer, the system tick counter, power (sleep) management and the       *)
(* 16-bit Timer1 driver.                                                   *)
(*                                                                         *)
(* Registers whose bits are set and cleared one by one are modelled as the *)
(* set of the names of the bits that are 1; data registers are integers.   *)
(* The foreground program makes one driver call at a time; interrupt       *)
(* handlers run to completion (an AVR handler runs with the global         *)
(* interrupt flag cleared).                                                *)
(***************************************************************************)
EXTENDS Integers, Sequences, FiniteSets, TLC

VARIABLES
    \* ---- I2C driver (src/platforms/avr/i2c.c) ----
    twcr,           \* TWCR as read back: the set of bits that are 1
    twsr,           \* TWSR & 0xF8: the status code of the last bus event
    twdr,           \* TWDR
    i2c_callback,   \* [handler, user_data]
    i2c_config,     \* current_config (addr_mode)
    i2c_call,       \* the master call in progress or last returned
    i2c_rx,         \* what the call stored into the caller's receive buffer
    i2c_bus,        \* history: the bus phases the driver asked the TWI for
    i2c_events,     \* history: the callback invocations of the current call
    i2c_mis,        \* history: Len(i2c_bus) when a phase completed with an
                    \* unexpected status code (0: none in this call)
    \* ---- UART driver (src/platforms/avr/uart.c) ----
    ucsra,          \* UCSR0A: the set of bits that are 1
    ucsrb,          \* UCSR0B: the set of bits that are 1
    udr,            \* UDR0 as read: the received byte waiting (0 when none)
    uart_callbacks, \* [rx_handler, rx_user_data, tx_handler, tx_user_data]
    rx_buffer,      \* the 64-byte ring buffer
    rx_head,
    rx_tail,
    uart_events,    \* history: the receive callback invocations of the last
                    \* run of the receive interrupt handler, each with the
                    \* byte that run read from UDR0
    \* ---- CPU and Timer2 registers shared by system.c and power.c ----
    sreg_I,         \* the global interrupt enable flag of SREG
    timsk2,         \* TIMSK2: the set of bits that are 1
    \* ---- system driver (system.c, the second file of src/.../i2c.c) ----
    system_ticks,   \* uint32_t as its four bytes, least significant first
    system_initialized,
    tccr2b,         \* TCCR2B: the set of bits that are 1
    sys_call,       \* the get_tick / get_uptime_ms call in progress
    \* ---- power driver (src/platforms/avr/power.c) ----
    smcr,           \* SMCR: [sm |-> sleep mode, se |-> sleep enable]
    eimsk,          \* EIMSK: the set of bits that are 1
    wdtcsr,         \* WDTCSR: the set of bits that are 1
    current_power_mode,
    last_wakeup,    \* [source, pin_or_id]
    power_call,     \* the set_mode call in progress or last returned
    cpu_asleep,     \* the CPU executed SLEEP and no interrupt woke it yet
    power_log,      \* history: the steps the current set_mode call executed
    power_woken,    \* history: an interrupt ran after the call's SLEEP
    wake_count,     \* history: wake interrupts taken during the set_mode call (2 = more)
    \* ---- timer driver (src/platforms/avr/timer.c) ----
    tccra,          \* TCCR1A: the set of bits that are 1
    tccrb,          \* TCCR1B: the set of bits that are 1
    timsk,          \* TIMSK1: the set of bits that are 1
    tcnt,           \* TCNT1 as the driver writes it (counting is not
                    \* modelled)
    icr,            \* ICR1
    ocra,           \* OCR1A
    ocrb,           \* OCR1B
    timer_callbacks,\* the four handler slots, user data with each
    timer_config,   \* current_config: [mode, period]
    timer_last,     \* history: the last driver call or handler run, with
                    \* its arguments and what it returned
    \* ---- ADC driver (src/platforms/avr/adc.c) ----
    admux,          \* ADMUX: [refs |-> the REFS bits that are 1,
                    \*         mux |-> the channel in bits 2..0]
    adcsra,         \* ADCSRA: the set of bits that are 1
    adc_data,       \* ADC: the result of the last completed conversion
    adc_irq_handlers, \* the handler slot of each channel 0..7
    adc_call,       \* the read call in progress, or the last call returned
    adc_events,     \* history: the handler invocations of the last run
                    \* of the conversion-complete interrupt handler
    adc_mode,       \* history: config->mode of the last avr_adc_init that
                    \* returned OK (the driver keeps ADIE only)
    \* ---- SPI driver (src/unnamed/part_011) ----
    spcr,           \* SPCR: the set of bits that are 1
    spsr,           \* SPSR: the set of bits that are 1
    spi_callback,   \* [handler, user_data]
    spi_last,       \* history: the last driver call and what it returned
    spi_events,     \* history: the handler invocations of the last run of
                    \* the transfer-complete interrupt handler
    \* ---- I2C bus scan (src/platforms/avr/i2c.c) ----
    i2c_scan,       \* the scan call in progress: its locals, its out
                    \* parameters and what it returned
    i2c_present,    \* the addresses of the devices on the bus, each of which
                    \* acknowledges its address
    \* ---- UART blocking transfers (src/platforms/avr/uart.c) ----
    uart_call,      \* the transmit / receive call in progress
    uart_tx,        \* history: the bytes the call wrote to UDR0
    uart_rx,        \* what the call stored into the caller's buffer
    uart_arrived,   \* history: the bytes the receiver took in, in order, for
                    \* the receive call in progress
    \* ---- SPI blocking transfers (part_011) ----
    spdr,           \* SPDR as read: the byte last shifted in
    spi_shift,      \* the shift register: busy with a byte, and whether
                    \* SPSR was read while SPIF was set
    spi_call,       \* the transfer / transmit / receive call in progress
    spi_sent,       \* history: the bytes the call wrote to SPDR
    spi_stored,     \* what the call stored into the caller's rx buffer
    \* ---- GPIO (src/platforms/avr/gpio.c) ----
    gpio_ddr,       \* DDRB: the set of bits that are 1
    gpio_port,      \* PORTB: the set of bits that are 1
    gpio_irq_handlers,  \* gpio_irq_handlers[24]
    gpio_log,       \* history: the last two calls, the latest last
    \* ---- register_callback statement by statement ----
    reg_call,       \* the register_callback call in progress
    reg_pairs       \* history: the (driver, handler, user_data) registered

i2cVars == <<twcr, twsr, twdr, i2c_callback, i2c_config, i2c_call, i2c_rx,
             i2c_bus, i2c_events, i2c_mis>>

uartVars == <<ucsra, ucsrb, udr, uart_callbacks, rx_buffer, rx_head, rx_tail,
              uart_events>>

cpuVars == <<sreg_I, timsk2>>

sysVars == <<system_ticks, system_initialized, tccr2b, sys_call>>

powerVars == <<smcr, eimsk, wdtcsr, current_power_mode, last_wakeup,
               power_call, cpu_asleep, power_log, power_woken, wake_count>>

timerVars == <<tccra, tccrb, timsk, tcnt, icr, ocra, ocrb, timer_callbacks,
               timer_config, timer_last>>

adcVars == <<admux, adcsra, adc_data, adc_irq_handlers, adc_call, adc_events,
             adc_mode>>

spiVars == <<spcr, spsr, spi_callback, spi_last, spi_events>>

scanVars == <<i2c_scan, i2c_present>>

uartIoVars == <<uart_call, uart_tx, uart_rx, uart_arrived>>

\* the variables of the blocking transfers and of the GPIO driver
spiIoVars == <<spdr, spi_shift, spi_call, spi_sent, spi_stored>>

gpioVars == <<gpio_ddr, gpio_port, gpio_irq_handlers, gpio_log>>

regVars == <<reg_call, reg_pairs>>

extVars == <<uartIoVars, spiIoVars, gpioVars, regVars>>

vars == <<i2cVars, uartVars, cpuVars, sysVars, powerVars, timerVars, adcVars,
          spiVars, scanVars, extVars>>

\* what the actions of one driver leave alone (the system and the power
\* driver both use SREG and TIMSK2, which each of their actions frames
\* itself)
notI2C   == <<uartVars, cpuVars, sysVars, powerVars, timerVars, adcVars,
             spiVars, scanVars,
             extVars>>
notUART  == <<i2cVars, cpuVars, sysVars, powerVars, timerVars, adcVars,
             spiVars, scanVars,
             extVars>>
notSys   == <<i2cVars, uartVars, powerVars, timerVars, adcVars, spiVars,
             scanVars,
             extVars>>
notPower == <<i2cVars, uartVars, sysVars, timerVars, adcVars, spiVars,
             scanVars,
             extVars>>
notTimer == <<i2cVars, uartVars, cpuVars, sysVars, powerVars, adcVars,
             spiVars, scanVars,
             extVars>>
notADC   == <<i2cVars, uartVars, cpuVars, sysVars, powerVars, timerVars,
             spiVars, scanVars,
             extVars>>
notSPI   == <<i2cVars, uartVars, cpuVars, sysVars, powerVars, timerVars,
             adcVars, scanVars,
             extVars>>
notScan  == <<uartVars, cpuVars, sysVars, powerVars, timerVars, adcVars,
             spiVars,
             extVars>>
notUartIo == <<i2cVars, cpuVars, sysVars, powerVars, timerVars, adcVars,
               spiVars, scanVars, spiIoVars, gpioVars, regVars>>
notSpiIo  == <<i2cVars, uartVars, cpuVars, sysVars, powerVars, timerVars,
               adcVars, scanVars, uartIoVars, gpioVars, regVars>>
notGPIO   == <<i2cVars, uartVars, cpuVars, sysVars, powerVars, timerVars,
               adcVars, spiVars, scanVars, uartIoVars, spiIoVars, regVars>>
\* what a statement of register_callback leaves alone besides the driver
\* it belongs to
notReg    == <<i2cVars, cpuVars, sysVars, powerVars, adcVars, spiVars,
               scanVars, uartIoVars, spiIoVars, gpioVars>>

NULL == "NULL"

\* eer_hal_status_t
EER_HAL_OK            == "EER_HAL_OK"
EER_HAL_ERROR         == "EER_HAL_ERROR"
EER_HAL_BUSY          == "EER_HAL_BUSY"
EER_HAL_TIMEOUT       == "EER_HAL_TIMEOUT"
EER_HAL_INVALID_PARAM == "EER_HAL_INVALID_PARAM"
EER_HAL_NOT_SUPPORTED == "EER_HAL_NOT_SUPPORTED"

(***************************************************************************)
(* Bounds and input sets                                                   *)
(***************************************************************************)
MaxLen == 2                      \* longest transmit / receive buffer of a call

TxBytes     == {170, 85}         \* 0xAA, 0x55
RxBytes     == {17, 34}          \* 0x11, 0x22
Addresses   == {80, 60}          \* 0x50, 0x3C
Timeouts    == {0, 100}
I2cHandlers == {"h1"}
UserData    == {"u1"}

\* A pointer to a caller's byte buffer: NULL, or the buffer's bytes.
NullPtr    == [null |-> TRUE, bytes |-> <<>>]
Buf(bytes) == [null |-> FALSE, bytes |-> bytes]
Buffers(S) == {NullPtr} \cup {Buf(b) : b \in UNION {[1..n -> S] : n \in 0..MaxLen}}

(***************************************************************************)
(* The polling loops' timeout test.  The same text is in                   *)
(* i2c_wait_for_completion, avr_uart_transmit, avr_uart_receive and        *)
(* avr_spi_transfer: both times are the literal 0, so the unsigned         *)
(* difference is 0 and never wraps.                                        *)
(***************************************************************************)
start_time   == 0
current_time == 0

poll_timed_out(timeout) ==
    /\ timeout > 0
    /\ (current_time - start_time) >= timeout

(***************************************************************************)
(* I2C                                                                     *)
(***************************************************************************)
I2C_START_TRANSMITTED     == 8
I2C_RESTART_TRANSMITTED   == 16
I2C_SLA_W_ACK             == 24
I2C_SLA_W_NACK            == 32
I2C_DATA_TRANSMITTED_ACK  == 40
I2C_DATA_TRANSMITTED_NACK == 48
I2C_ARBITRATION_LOST      == 56
I2C_SLA_R_ACK             == 64
I2C_SLA_R_NACK            == 72
I2C_DATA_RECEIVED_ACK     == 80
I2C_DATA_RECEIVED_NACK    == 88

\* what TWSR & 0xF8 can read after a bus event (0xF8: no state, 0x00: bus error)
TwiStatusCodes ==
    {I2C_START_TRANSMITTED, I2C_RESTART_TRANSMITTED, I2C_SLA_W_ACK,
     I2C_SLA_W_NACK, I2C_DATA_TRANSMITTED_ACK, I2C_DATA_TRANSMITTED_NACK,
     I2C_ARBITRATION_LOST, I2C_SLA_R_ACK, I2C_SLA_R_NACK,
     I2C_DATA_RECEIVED_ACK, I2C_DATA_RECEIVED_NACK, 0, 248}

I2cIdleCall ==
    [op |-> "none", pc |-> "idle", phase |-> "none", i |-> 0, address |-> 0,
     tx |-> NullPtr, tx_size |-> 0, rx_size |-> 0, timeout |-> 0, ret |-> "none"]

I2CInit ==
    /\ twcr = {}
    /\ twsr = 248
    /\ twdr = 255
    /\ i2c_callback = [handler |-> NULL, user_data |-> NULL]
    /\ i2c_config = [addr_mode |-> "EER_I2C_ADDR_7BIT"]
    /\ i2c_call = I2cIdleCall
    /\ i2c_rx = <<>>
    /\ i2c_bus = <<>>
    /\ i2c_events = <<>>
    /\ i2c_mis = 0

(***************************************************************************)
(* UART                                                                    *)
(***************************************************************************)
RX_BUFFER_SIZE == 64             \* sizeof(rx_buffer)

MaxMarkers == 1                  \* received bytes other than 0x00 in flight

UartRxBytes == {0, 165}          \* 0x00 and the marker 0xA5

UARTInit ==
    /\ ucsra = {"UDRE0"}
    /\ ucsrb = {}
    /\ udr = 0
    /\ uart_callbacks = [rx_handler |-> NULL, rx_user_data |-> NULL,
                         tx_handler |-> NULL, tx_user_data |-> NULL]
    /\ rx_buffer = [k \in 0..(RX_BUFFER_SIZE - 1) |-> 0]
    /\ rx_head = 0
    /\ rx_tail = 0
    /\ uart_events = <<>>

(***************************************************************************)
(* CPU, system tick                                                        *)
(***************************************************************************)
MaxTicks == 257                  \* tick interrupts modelled: the counter
                                 \* passes 0x000000FF -> 0x00000100

ZeroTicks == <<0, 0, 0, 0>>

SysIdleCall ==
    [op |-> NULL, pc |-> "idle", i |-> 0, sreg |-> FALSE,
     local |-> ZeroTicks, out |-> <<>>, ret |-> NULL,
     \* history: the counter when interrupts were disabled and when they
     \* were restored; a tick interrupt ran during the call
     lo |-> ZeroTicks, hi |-> ZeroTicks, irq |-> FALSE]

CPUInit ==
    /\ sreg_I = FALSE
    /\ timsk2 = {}

SysInit ==
    /\ system_ticks = ZeroTicks
    /\ system_initialized = FALSE
    /\ tccr2b = {}
    /\ sys_call = SysIdleCall

(***************************************************************************)
(* Power                                                                   *)
(***************************************************************************)
PowerModes == {"EER_POWER_MODE_RUN", "EER_POWER_MODE_SLEEP",
               "EER_POWER_MODE_DEEP_SLEEP", "EER_POWER_MODE_STANDBY"}

SleepVariants == PowerModes \ {"EER_POWER_MODE_RUN"}

InvalidPowerMode == "4"          \* a value outside eer_power_mode_t

PowerIdleCall == [op |-> NULL, pc |-> "idle", i |-> 0, mode |-> NULL,
                  ret |-> NULL, out |-> NULL]

PowerInit ==
    /\ smcr = [sm |-> "SLEEP_MODE_IDLE", se |-> FALSE]
    /\ eimsk = {}
    /\ wdtcsr = {}
    /\ current_power_mode = "EER_POWER_MODE_RUN"
    /\ last_wakeup = [source |-> "EER_WAKEUP_PIN", pin_or_id |-> 0]
    /\ power_call = PowerIdleCall
    /\ cpu_asleep = FALSE
    /\ power_log = <<>>
    /\ power_woken = FALSE
    /\ wake_count = 0

(***************************************************************************)
(* Timer1                                                                  *)
(***************************************************************************)
TimerModes == {"EER_TIMER_MODE_ONE_SHOT", "EER_TIMER_MODE_CONTINUOUS",
               "EER_TIMER_MODE_PWM"}

TimerEvents == {"EER_TIMER_EVENT_OVERFLOW", "EER_TIMER_EVENT_COMPARE",
                "EER_TIMER_EVENT_CAPTURE"}

TimerSlots == {"overflow", "compare_a", "compare_b", "capture"}

EmptySlot == [handler |-> NULL, user_data |-> NULL]

TimerPeriods == {1000, 65535, 65536}

TimerHandlers == {"h1"}

\* fired: a one-shot overflow or compare-A handler has run and start was not
\* called since
TimerNoCall ==
    [op |-> "reset", ret |-> NULL, arg |-> 0, called |-> FALSE,
     fired |-> FALSE]

TimerInit ==
    /\ tccra = {}
    /\ tccrb = {}
    /\ timsk = {}
    /\ tcnt = 0
    /\ icr = 0
    /\ ocra = 0
    /\ ocrb = 0
    /\ timer_callbacks = [s \in TimerSlots |-> EmptySlot]
    /\ timer_config = [mode |-> "EER_TIMER_MODE_ONE_SHOT", period |-> 0]
    /\ timer_last = TimerNoCall

(***************************************************************************)
(* ADC                                                                     *)
(***************************************************************************)
ADC_CHANNELS == 8                \* adc_irq_handlers[8]

AdcIdleCall ==
    [op |-> NULL, pc |-> "idle", channel |-> 0, ret |-> NULL, value |-> 0,
     \* history: the call started a conversion; a conversion was in flight
     \* when the call selected the channel
     started |-> FALSE, in_flight |-> FALSE]

ADCInit ==
    /\ admux = [refs |-> {}, mux |-> 0]
    /\ adcsra = {}
    /\ adc_data = 0
    /\ adc_irq_handlers = [ch \in 0..(ADC_CHANNELS - 1) |-> EmptySlot]
    /\ adc_call = AdcIdleCall
    /\ adc_events = <<>>
    /\ adc_mode = NULL

(***************************************************************************)
(* SPI                                                                     *)
(***************************************************************************)
SpiNoCall == [op |-> "reset", ret |-> NULL]

SPIInit ==
    /\ spcr = {}
    /\ spsr = {}
    /\ spi_callback = EmptySlot
    /\ spi_last = SpiNoCall
    /\ spi_events = <<>>

ScanIdle ==
    [pc |-> "idle", phase |-> NULL, addr |-> 0, count |-> 0,
     max_devices |-> 0, devices |-> <<>>, found_devices |-> 0,
     ret |-> NULL,
     \* history: the addresses whose write-address phase was acknowledged,
     \* and the number of START conditions the call asked for
     acked |-> <<>>, starts |-> 0]

ScanInit ==
    /\ i2c_scan = ScanIdle
    /\ i2c_present = {}

UartIdleCall ==
    [op |-> NULL, pc |-> "idle", i |-> 0, data |-> NullPtr, size |-> 0,
     timeout |-> 0, ret |-> NULL,
     \* history: the call has read the ready flag as set since its last
     \* access to UDR0
     observed |-> FALSE]

UartIoInit ==
    /\ uart_call = UartIdleCall
    /\ uart_tx = <<>>
    /\ uart_rx = <<>>
    /\ uart_arrived = <<>>

SpiIdleCall ==
    [op |-> NULL, pc |-> "idle", i |-> 0, tx_data |-> NullPtr,
     rx_data |-> NullPtr, size |-> 0, timeout |-> 0, ret |-> NULL,
     \* history: the loop has read SPIF as set since the last write to SPDR
     observed |-> FALSE,
     \* history: the number of reads of SPDR the call has made
     reads |-> 0]

SpiIoInit ==
    /\ spdr = 0
    /\ spi_shift = [busy |-> FALSE, seen |-> FALSE]
    /\ spi_call = SpiIdleCall
    /\ spi_sent = <<>>
    /\ spi_stored = <<>>

RegIdle ==
    [pc |-> "idle", driver |-> NULL, handler |-> NULL, user_data |-> NULL]

RegInit ==
    /\ reg_call = RegIdle
    /\ reg_pairs = {}

GPIO_IRQ_SLOTS == 24

\* DDRB and PORTB are 0 after reset; gpio_irq_handlers[24] = {0}
GPIOInit ==
    /\ gpio_ddr = {}
    /\ gpio_port = {}
    /\ gpio_irq_handlers = [k \in 0..(GPIO_IRQ_SLOTS - 1) |-> EmptySlot]
    /\ gpio_log = <<>>

Init ==
    /\ I2CInit /\ UARTInit /\ CPUInit /\ SysInit /\ PowerInit /\ TimerInit
    /\ ADCInit /\ SPIInit /\ ScanInit /\ UartIoInit /\ SpiIoInit /\ GPIOInit
    /\ RegInit

\* one entry of the bus history
Ph(kind, val) == [kind |-> kind, val |-> val]

\* A write to TWCR: writing 1 to TWINT clears the flag and makes the TWI act
\* on the other bits; the write is recorded as the phase `ph` asked for.
TwiIssue(cr, dr, log, ph) ==
    /\ twcr' = cr \ {"TWINT"}
    /\ twdr' = dr
    /\ i2c_bus' = Append(log, ph)

i2c_start(log) ==
    TwiIssue({"TWINT", "TWSTA", "TWEN"}, twdr, log, Ph("START", 0))

i2c_restart(log) ==
    TwiIssue({"TWINT", "TWSTA", "TWEN"}, twdr, log, Ph("RESTART", 0))

i2c_stop(log) ==
    TwiIssue({"TWINT", "TWSTO", "TWEN"}, twdr, log, Ph("STOP", 0))

\* the byte i2c_send_address loads into the 8-bit TWDR
i2c_address_byte(address, read) ==
    (address * 2 + (IF read THEN 1 ELSE 0)) % 256

i2c_send_address(address, read, log) ==
    TwiIssue({"TWINT", "TWEN"}, i2c_address_byte(address, read), log,
             Ph(IF read THEN "SLA_R" ELSE "SLA_W",
                i2c_address_byte(address, read)))

i2c_send_data(data, log) ==
    TwiIssue({"TWINT", "TWEN"}, data, log, Ph("DATA_TX", data))

i2c_receive_data(send_ack, log) ==
    TwiIssue(IF send_ack THEN {"TWINT", "TWEN", "TWEA"} ELSE {"TWINT", "TWEN"},
             twdr, log, Ph("DATA_RX", IF send_ack THEN 1 ELSE 0))

\* the status each helper accepts after its wait returned OK
i2c_status_ok(phase, send_ack, sr) ==
    CASE phase = "START"   -> sr = I2C_START_TRANSMITTED
      [] phase = "RESTART" -> sr = I2C_RESTART_TRANSMITTED
      [] phase = "SLA_W"   -> sr = I2C_SLA_W_ACK
      [] phase = "SLA_R"   -> sr = I2C_SLA_R_ACK
      [] phase = "DATA_TX" -> sr = I2C_DATA_TRANSMITTED_ACK
      [] phase = "DATA_RX" -> IF send_ack THEN sr = I2C_DATA_RECEIVED_ACK
                                          ELSE sr = I2C_DATA_RECEIVED_NACK

\* (mutant) every received byte is acknowledged
i2c_send_ack_always(i, size) == TRUE

\* bool send_ack = (i < size - 1)
i2c_send_ack(i, size) == i < size - 1

\* (mutant) the error path returns without i2c_stop()
i2c_abort_without_stop(status) ==
    /\ UNCHANGED <<twcr, twdr, i2c_bus>>
    /\ i2c_call' = [i2c_call EXCEPT !.pc = "done", !.ret = status]
    /\ i2c_events' = i2c_events

\* the error path of the three master calls: i2c_stop(); return status;
i2c_abort(status) ==
    /\ i2c_stop(i2c_bus)
    /\ i2c_call' = [i2c_call EXCEPT !.pc = "done", !.ret = status]
    /\ i2c_events' = i2c_events

\* the event each call hands to the callback
i2c_event(c) ==
    CASE c.op = "master_transmit" ->
           [address |-> c.address, tx_data |-> c.tx, rx_data |-> NULL,
            size |-> c.tx_size]
      [] c.op = "master_receive" ->
           [address |-> c.address, tx_data |-> NullPtr, rx_data |-> "rx_buffer",
            size |-> c.rx_size]
      [] c.op = "master_transmit_receive" ->
           [address |-> c.address, tx_data |-> c.tx, rx_data |-> "rx_buffer",
            size |-> (c.tx_size + c.rx_size) % 65536]

\* (mutant) the callback is invoked before i2c_stop()
i2c_finish_callback_first ==
    /\ i2c_stop(i2c_bus)
    /\ i2c_events' =
         IF i2c_callback.handler # NULL
         THEN Append(i2c_events,
                     [event |-> i2c_event(i2c_call),
                      handler |-> i2c_callback.handler,
                      user_data |-> i2c_callback.user_data,
                      at |-> Len(i2c_bus)])
         ELSE i2c_events
    /\ i2c_call' = [i2c_call EXCEPT !.pc = "done", !.ret = EER_HAL_OK]

\* the success path: i2c_stop(); callback if registered; return OK
\* (`at` is the length of the bus history when the callback runs)
i2c_finish ==
    /\ i2c_stop(i2c_bus)
    /\ i2c_events' =
         IF i2c_callback.handler # NULL
         THEN Append(i2c_events,
                     [event |-> i2c_event(i2c_call),
                      handler |-> i2c_callback.handler,
                      user_data |-> i2c_callback.user_data,
                      at |-> Len(i2c_bus) + 1])
         ELSE i2c_events
    /\ i2c_call' = [i2c_call EXCEPT !.pc = "done", !.ret = EER_HAL_OK]

\* a helper that goes on to the next phase
i2c_goto(phase, i) ==
    /\ i2c_call' = [i2c_call EXCEPT !.phase = phase, !.i = i]
    /\ i2c_events' = i2c_events

\* i2c_send_address as the callers use it: 10-bit addressing is refused
\* before any register is written
i2c_address_phase(read) ==
    IF i2c_config.addr_mode = "EER_I2C_ADDR_10BIT"
    THEN i2c_abort(EER_HAL_NOT_SUPPORTED)
    ELSE /\ i2c_send_address(i2c_call.address, read, i2c_bus)
         /\ i2c_goto(IF read THEN "SLA_R" ELSE "SLA_W", 0)

i2c_tx_phase(i) ==
    /\ i2c_send_data(i2c_call.tx.bytes[i + 1], i2c_bus)
    /\ i2c_goto("DATA_TX", i)

i2c_rx_phase(i) ==
    /\ i2c_receive_data(i2c_send_ack(i, i2c_call.rx_size), i2c_bus)
    /\ i2c_goto("DATA_RX", i)

\* what the call does once the phase it waited for has the expected status
i2c_advance ==
    LET c == i2c_call IN
    CASE c.phase = "START"   -> i2c_address_phase(c.op = "master_receive")
      [] c.phase = "SLA_W"   -> i2c_tx_phase(0)
      [] c.phase = "DATA_TX" ->
           IF c.i + 1 < c.tx_size THEN i2c_tx_phase(c.i + 1)
           ELSE IF c.op = "master_transmit" THEN i2c_finish
           ELSE i2c_restart(i2c_bus) /\ i2c_goto("RESTART", 0)
      [] c.phase = "RESTART" -> i2c_address_phase(TRUE)
      [] c.phase = "SLA_R"   -> i2c_rx_phase(0)
      [] c.phase = "DATA_RX" ->
           IF c.i + 1 < c.rx_size THEN i2c_rx_phase(c.i + 1) ELSE i2c_finish

\* the start of a master call: parameter check, then i2c_start
i2c_enter(op, address, tx, tx_size, rx_size, timeout, bad) ==
    /\ i2c_call.pc = "idle"
    /\ i2c_rx' = <<>>
    /\ i2c_events' = <<>>
    /\ i2c_mis' = 0
    /\ twsr' = twsr
    /\ UNCHANGED <<i2c_callback, i2c_config>>
    /\ IF bad
       THEN /\ i2c_call' = [I2cIdleCall EXCEPT !.op = op, !.pc = "done",
                                               !.ret = EER_HAL_INVALID_PARAM]
            /\ i2c_bus' = <<>>
            /\ UNCHANGED <<twcr, twdr>>
       ELSE /\ i2c_start(<<>>)
            /\ i2c_call' = [op |-> op, pc |-> "wait", phase |-> "START",
                            i |-> 0, address |-> address, tx |-> tx,
                            tx_size |-> tx_size, rx_size |-> rx_size,
                            timeout |-> timeout, ret |-> "none"]
    /\ UNCHANGED notI2C

\* size as the caller passes it with a buffer (any size with a NULL buffer)
SizeOf(data) == IF data.null THEN 1 ELSE Len(data.bytes)

avr_i2c_master_transmit(address, data, timeout) ==
    i2c_enter("master_transmit", address, data, SizeOf(data), 0, timeout,
              data.null \/ SizeOf(data) = 0)

avr_i2c_master_receive(address, has_buffer, size, timeout) ==
    i2c_enter("master_receive", address, NullPtr, 0, size, timeout,
              ~has_buffer \/ size = 0)

avr_i2c_master_transmit_receive(address, tx, has_buffer, rx_size, timeout) ==
    i2c_enter("master_transmit_receive", address, tx, SizeOf(tx), rx_size,
              timeout,
              (tx.null \/ SizeOf(tx) = 0) \/ (~has_buffer \/ rx_size = 0))

\* one turn of the loop of i2c_wait_for_completion and, when the wait ends,
\* the rest of the helper and of the call up to the next wait or the return
I2C_Poll ==
    /\ i2c_call.pc = "wait"
    /\ UNCHANGED <<twsr, i2c_callback, i2c_config, i2c_mis>>
    /\ IF "TWINT" \notin twcr
       THEN /\ i2c_rx' = i2c_rx
            /\ IF poll_timed_out(i2c_call.timeout)
               THEN i2c_abort(EER_HAL_TIMEOUT)
               ELSE UNCHANGED <<twcr, twdr, i2c_bus, i2c_call, i2c_events>>
       ELSE IF ~i2c_status_ok(i2c_call.phase,
                              i2c_send_ack(i2c_call.i, i2c_call.rx_size), twsr)
            THEN i2c_rx' = i2c_rx /\ i2c_abort(EER_HAL_ERROR)
            ELSE /\ i2c_rx' = IF i2c_call.phase = "DATA_RX"
                              THEN Append(i2c_rx, twdr) ELSE i2c_rx
                 /\ i2c_advance
    /\ UNCHANGED notI2C

\* the status code the TWI protocol gives a phase that went well
TwiExpected(phase, send_ack) ==
    CASE phase = "START"   -> I2C_START_TRANSMITTED
      [] phase = "RESTART" -> I2C_RESTART_TRANSMITTED
      [] phase = "SLA_W"   -> I2C_SLA_W_ACK
      [] phase = "SLA_R"   -> I2C_SLA_R_ACK
      [] phase = "DATA_TX" -> I2C_DATA_TRANSMITTED_ACK
      [] phase = "DATA_RX" -> IF send_ack THEN I2C_DATA_RECEIVED_ACK
                                          ELSE I2C_DATA_RECEIVED_NACK

\* The TWI hardware ends the phase it was asked for: TWINT is set and TWSR
\* holds a status code; a receive phase leaves the byte in TWDR.
TwiComplete ==
    /\ i2c_call.pc = "wait"
    /\ "TWINT" \notin twcr
    /\ \E code \in TwiStatusCodes :
       \E d \in (IF i2c_call.phase = "DATA_RX" THEN RxBytes ELSE {twdr}) :
          /\ twcr' = twcr \cup {"TWINT"}
          /\ twsr' = code
          /\ twdr' = d
          /\ i2c_mis' =
               IF code # TwiExpected(i2c_call.phase,
                                     i2c_send_ack(i2c_call.i, i2c_call.rx_size))
               THEN Len(i2c_bus) ELSE i2c_mis
    /\ UNCHANGED <<i2c_callback, i2c_config, i2c_call, i2c_rx, i2c_bus,
                   i2c_events>>
    /\ UNCHANGED notI2C

avr_i2c_init(addr_mode) ==
    /\ i2c_call.pc = "idle"
    /\ i2c_config' = [addr_mode |-> addr_mode]
    /\ twcr' = {"TWEN"}
    /\ UNCHANGED <<twsr, twdr, i2c_callback, i2c_call, i2c_rx, i2c_bus,
                   i2c_events, i2c_mis>>
    /\ UNCHANGED notI2C

avr_i2c_deinit ==
    /\ i2c_call.pc = "idle"
    /\ twcr' = {}
    /\ i2c_callback' = [handler |-> NULL, user_data |-> NULL]
    /\ UNCHANGED <<twsr, twdr, i2c_config, i2c_call, i2c_rx, i2c_bus,
                   i2c_events, i2c_mis>>
    /\ UNCHANGED notI2C

avr_i2c_register_callback(handler, user_data) ==
    /\ i2c_call.pc = "idle"
    /\ i2c_callback' = IF handler = NULL THEN i2c_callback
                       ELSE [handler |-> handler, user_data |-> user_data]
    /\ UNCHANGED <<twcr, twsr, twdr, i2c_config, i2c_call, i2c_rx, i2c_bus,
                   i2c_events, i2c_mis>>
    /\ UNCHANGED notI2C

avr_i2c_unregister_callback ==
    /\ i2c_call.pc = "idle"
    /\ i2c_callback' = [handler |-> NULL, user_data |-> NULL]
    /\ UNCHANGED <<twcr, twsr, twdr, i2c_config, i2c_call, i2c_rx, i2c_bus,
                   i2c_events, i2c_mis>>
    /\ UNCHANGED notI2C

\* The call has returned (pc = "done" is the moment of the return statement):
\* the foreground program goes on and the histories of the call are dropped.
I2C_Return ==
    /\ i2c_call.pc = "done"
    /\ i2c_call' = I2cIdleCall
    /\ i2c_rx' = <<>>
    /\ i2c_bus' = <<>>
    /\ i2c_events' = <<>>
    /\ i2c_mis' = 0
    /\ UNCHANGED <<twcr, twsr, twdr, i2c_callback, i2c_config>>
    /\ UNCHANGED notI2C

I2C_Call ==
    \E address \in Addresses, timeout \in Timeouts :
       \/ \E data \in Buffers(TxBytes) :
             avr_i2c_master_transmit(address, data, timeout)
       \/ \E has_buffer \in BOOLEAN, size \in 0..MaxLen :
             avr_i2c_master_receive(address, has_buffer, size, timeout)
       \/ \E tx \in Buffers(TxBytes), has_buffer \in BOOLEAN,
             rx_size \in 0..MaxLen :
             avr_i2c_master_transmit_receive(address, tx, has_buffer, rx_size,
                                             timeout)

I2C_Setup ==
    \/ \E m \in {"EER_I2C_ADDR_7BIT", "EER_I2C_ADDR_10BIT"} : avr_i2c_init(m)
    \/ avr_i2c_deinit
    \/ \E h \in {NULL} \cup I2cHandlers, u \in UserData :
          avr_i2c_register_callback(h, u)
    \/ avr_i2c_unregister_callback

NextI2C ==
    \/ I2C_Call
    \/ I2C_Setup
    \/ I2C_Poll
    \/ I2C_Return
    \/ TwiComplete

\* The processor keeps executing the polling loop of a call in progress.
SpecI2C == Init /\ [][NextI2C]_vars /\ WF_vars(I2C_Poll)

(***************************************************************************)
(* Claims about the I2C driver                                             *)
(***************************************************************************)

\* C1: once a phase of a master call completed with a status code other than
\* the expected one, the call issues nothing but STOP and returns ERROR:
\* until the call looks at the status no further phase is issued, and at the
\* return the bus history is the history at the mismatch followed by STOP.
C1_StopAfterMismatch ==
    i2c_mis # 0 =>
       \/ /\ i2c_call.pc = "wait"
          /\ Len(i2c_bus) = i2c_mis
       \/ /\ i2c_call.pc = "done"
          /\ i2c_call.ret = EER_HAL_ERROR
          /\ Len(i2c_bus) = i2c_mis + 1
          /\ i2c_bus[i2c_mis + 1].kind = "STOP"
          /\ "TWSTO" \in twcr

\* a transmit_receive call returned after its last receive phase failed
C1_Witness ==
    /\ i2c_call.pc = "done"
    /\ i2c_call.op = "master_transmit_receive"
    /\ i2c_mis = 3 + i2c_call.tx_size + i2c_call.rx_size
    /\ i2c_call.rx_size = MaxLen

\* C2: at the return of master_transmit with a callback registered, OK means
\* the callback ran exactly once, after STOP, with the call's address, tx
\* buffer, NULL rx buffer and size; any other status means it did not run.
C2_TransmitCallback ==
    (i2c_call.pc = "done" /\ i2c_call.op = "master_transmit") =>
       IF i2c_call.ret = EER_HAL_OK
       THEN i2c_callback.handler # NULL =>
              /\ Len(i2c_events) = 1
              /\ i2c_events[1].handler = i2c_callback.handler
              /\ i2c_events[1].event.address = i2c_call.address
              /\ i2c_events[1].event.tx_data = i2c_call.tx
              /\ i2c_events[1].event.rx_data = NULL
              /\ i2c_events[1].event.size = i2c_call.tx_size
              /\ i2c_events[1].at = Len(i2c_bus)
              /\ i2c_bus[Len(i2c_bus)].kind = "STOP"
       ELSE i2c_events = <<>>

\* master_transmit of MaxLen bytes returned OK and the callback ran
C2_Witness ==
    /\ i2c_call.pc = "done"
    /\ i2c_call.op = "master_transmit"
    /\ i2c_call.ret = EER_HAL_OK
    /\ i2c_call.tx_size = MaxLen
    /\ Len(i2c_events) = 1

\* C3: a wait entered with timeout > 0 whose ready flag (TWINT) is not set
\* ends: the flag becomes set or the call returns TIMEOUT.
C3_WaitTimesOut ==
    (i2c_call.pc = "wait" /\ i2c_call.timeout > 0 /\ "TWINT" \notin twcr)
       ~> ("TWINT" \in twcr
             \/ (i2c_call.pc = "done" /\ i2c_call.ret = EER_HAL_TIMEOUT))

(***************************************************************************)
(* UART actions                                                            *)
(***************************************************************************)
avr_uart_init ==
    /\ ucsra' = ucsra \cup {"U2X0"}
    /\ ucsrb' = {"RXEN0", "TXEN0"}
    /\ rx_head' = 0
    /\ rx_tail' = 0
    /\ UNCHANGED <<udr, uart_callbacks, rx_buffer, uart_events>>
    /\ UNCHANGED notUART

avr_uart_deinit ==
    /\ ucsrb' = {}
    /\ uart_callbacks' = [rx_handler |-> NULL, rx_user_data |-> NULL,
                          tx_handler |-> NULL, tx_user_data |-> NULL]
    /\ UNCHANGED <<ucsra, udr, rx_buffer, rx_head, rx_tail, uart_events>>
    /\ UNCHANGED notUART

avr_uart_register_rx_callback(handler, user_data) ==
    /\ IF handler = NULL
       THEN UNCHANGED <<uart_callbacks, ucsrb>>
       ELSE /\ uart_callbacks' = [uart_callbacks EXCEPT
                                    !.rx_handler = handler,
                                    !.rx_user_data = user_data]
            /\ ucsrb' = ucsrb \cup {"RXCIE0"}
    /\ UNCHANGED <<ucsra, udr, rx_buffer, rx_head, rx_tail, uart_events>>
    /\ UNCHANGED notUART

avr_uart_unregister_rx_callback ==
    /\ uart_callbacks' = [uart_callbacks EXCEPT !.rx_handler = NULL,
                                                !.rx_user_data = NULL]
    /\ ucsrb' = ucsrb \ {"RXCIE0"}
    /\ UNCHANGED <<ucsra, udr, rx_buffer, rx_head, rx_tail, uart_events>>
    /\ UNCHANGED notUART

\* (mutant) the head wraps one position behind the end of the buffer
rx_next_head_late(head) == (head + 1) % (RX_BUFFER_SIZE + 1)

\* uint8_t next_head = (rx_head + 1) % sizeof(rx_buffer)
rx_next_head(head) == (head + 1) % RX_BUFFER_SIZE

\* (mutant) the byte is stored at next_head instead of at the head
rx_store_at_next(buf, head, tail, data) ==
    IF rx_next_head(head) # tail
    THEN [buffer |-> [buf EXCEPT ![rx_next_head(head)] = data],
          head |-> rx_next_head(head)]
    ELSE [buffer |-> buf, head |-> head]

\* if (next_head != rx_tail) { rx_buffer[rx_head] = data; rx_head = next_head; }
rx_store(buf, head, tail, data) ==
    IF rx_next_head(head) # tail
    THEN [buffer |-> [buf EXCEPT ![head] = data], head |-> rx_next_head(head)]
    ELSE [buffer |-> buf, head |-> head]

\* The event handed to the receive callback: .data = &rx_buffer[rx_head - 1]
\* with rx_head as it is after the store.  `byte` is what that reference
\* reads inside the callback; index -1 is outside the array and reads any byte.
\* (mutant) the reference is built from the head before the store
rx_event_early(buf, head, b) ==
    [index |-> head - 2, byte |-> b, size |-> 1,
     handler |-> uart_callbacks.rx_handler,
     user_data |-> uart_callbacks.rx_user_data]

rx_event(buf, head, b) ==
    [index |-> head - 1, byte |-> b, size |-> 1,
     handler |-> uart_callbacks.rx_handler,
     user_data |-> uart_callbacks.rx_user_data]

\* ISR(USART_RX_vect)
USART_RX_vect ==
    /\ "RXCIE0" \in ucsrb
    /\ "RXC0" \in ucsra
    /\ LET data == udr
           st   == rx_store(rx_buffer, rx_head, rx_tail, data)
       IN /\ rx_buffer' = st.buffer
          /\ rx_head' = st.head
          /\ IF uart_callbacks.rx_handler # NULL
             THEN \E b \in (IF st.head - 1 \in DOMAIN st.buffer
                            THEN {st.buffer[st.head - 1]} ELSE UartRxBytes) :
                     uart_events' = <<[event |-> rx_event(st.buffer, st.head, b),
                                       received |-> data]>>
             ELSE uart_events' = <<>>
    /\ ucsra' = ucsra \ {"RXC0"}
    /\ udr' = 0
    /\ UNCHANGED <<ucsrb, uart_callbacks, rx_tail>>
    /\ UNCHANGED notUART

\* bytes other than 0x00 now in the receiver or in the ring buffer
MarkersInFlight ==
    Cardinality({k \in DOMAIN rx_buffer : rx_buffer[k] # 0})
      + (IF udr # 0 THEN 1 ELSE 0)

\* a blocking receive call is in its loop
uart_receiving ==
    uart_call.op = "receive" /\ uart_call.pc \in {"poll", "access"}

\* The receiver has shifted in a byte: it waits in UDR0 and RXC0 is set.
UartByteArrives ==
    /\ "RXEN0" \in ucsrb
    /\ "RXC0" \notin ucsra
    /\ \E b \in UartRxBytes :
          /\ b # 0 => MarkersInFlight < MaxMarkers
          /\ udr' = b
          /\ uart_arrived' = IF uart_receiving THEN Append(uart_arrived, b)
                                               ELSE uart_arrived
    /\ ucsra' = ucsra \cup {"RXC0"}
    /\ UNCHANGED <<ucsrb, uart_callbacks, rx_buffer, rx_head, rx_tail,
                   uart_events>>
    /\ UNCHANGED <<uart_call, uart_tx, uart_rx, notUartIo>>

NextUART ==
    \/ avr_uart_init
    \/ avr_uart_deinit
    \/ \E h \in {NULL, "h1"}, u \in UserData :
          avr_uart_register_rx_callback(h, u)
    \/ avr_uart_unregister_rx_callback
    \/ USART_RX_vect
    \/ UartByteArrives

SpecUART == Init /\ [][NextUART]_vars

(***************************************************************************)
(* Claims about the UART receive interrupt                                 *)
(***************************************************************************)

\* C4: a run of the receive interrupt handler stores the byte read from UDR0
\* at rx_buffer[rx_head] and advances rx_head modulo 64 when
\* (rx_head + 1) mod 64 differs from rx_tail, and otherwise leaves the
\* buffer, rx_head and rx_tail as they were.
C4_RxInterruptStores ==
    [][USART_RX_vect =>
         IF (rx_head + 1) % 64 # rx_tail
         THEN /\ rx_buffer' = [rx_buffer EXCEPT ![rx_head] = udr]
              /\ rx_head' = (rx_head + 1) % 64
              /\ rx_tail' = rx_tail
         ELSE UNCHANGED <<rx_buffer, rx_head, rx_tail>>]_vars

\* the buffer is full (63 bytes stored) and the handler has just read the
\* marker byte and dropped it
C4_Witness ==
    /\ rx_head = 63
    /\ rx_tail = 0
    /\ uart_events # <<>>
    /\ uart_events[1].received = 165
    /\ \A k \in DOMAIN rx_buffer : rx_buffer[k] = 0

\* C5: a run of the receive interrupt handler with a receive callback
\* registered invokes it exactly once, with size 1 and a data reference
\* that reads the byte received in this interrupt.
C5_RxCallbackGetsReceivedByte ==
    [][(USART_RX_vect /\ uart_callbacks.rx_handler # NULL) =>
         /\ Len(uart_events') = 1
         /\ uart_events'[1].event.size = 1
         /\ uart_events'[1].event.byte = udr]_vars

(***************************************************************************)
(* System driver: tick counter, interrupt flag                             *)
(***************************************************************************)
\* no driver call of the foreground program is in progress
ForegroundFree == sys_call.pc = "idle" /\ power_call.pc = "idle"

\* system_ticks++ on the four bytes of the uint32_t (wraps at 2^32)
\* (mutant) the counter's low byte is not carried into the second byte
TickIncNoCarry(t) == <<(t[1] + 1) % 256, t[2], t[3], t[4]>>

TickInc(t) ==
    IF t[1] < 255 THEN <<t[1] + 1, t[2], t[3], t[4]>>
    ELSE IF t[2] < 255 THEN <<0, t[2] + 1, t[3], t[4]>>
    ELSE IF t[3] < 255 THEN <<0, 0, t[3] + 1, t[4]>>
    ELSE <<0, 0, 0, (t[4] + 1) % 256>>

\* a <= b as unsigned 32-bit values
TickLE(a, b) ==
    \/ a[4] < b[4]
    \/ a[4] = b[4] /\ a[3] < b[3]
    \/ a[4] = b[4] /\ a[3] = b[3] /\ a[2] < b[2]
    \/ a[4] = b[4] /\ a[3] = b[3] /\ a[2] = b[2] /\ a[1] <= b[1]

\* the counter is below the number of tick interrupts modelled
TicksBelow(t, n) == t[3] = 0 /\ t[4] = 0 /\ t[1] + 256 * t[2] < n

\* cli() left out: the flag stays as it was
cli_skipped(flag) == flag

\* the global interrupt flag after cli() and after sei()
cli(flag) == FALSE

sei(flag) == TRUE

avr_system_init ==
    /\ ForegroundFree
    /\ IF system_initialized
       THEN UNCHANGED <<cpuVars, sysVars>>
       ELSE /\ system_ticks' = ZeroTicks
            /\ timsk2' = {"OCIE2A"}
            /\ tccr2b' = {"CS22"}
            /\ sreg_I' = sei(sreg_I)
            /\ system_initialized' = TRUE
            /\ UNCHANGED sys_call
    /\ UNCHANGED notSys

avr_system_deinit ==
    /\ ForegroundFree
    /\ IF ~system_initialized
       THEN UNCHANGED <<cpuVars, sysVars>>
       ELSE /\ tccr2b' = {}
            /\ timsk2' = timsk2 \ {"OCIE2A"}
            /\ system_initialized' = FALSE
            /\ UNCHANGED <<sreg_I, system_ticks, sys_call>>
    /\ UNCHANGED notSys

avr_system_disable_interrupts ==
    /\ ForegroundFree
    /\ sreg_I' = cli(sreg_I)
    /\ UNCHANGED <<timsk2, sysVars, notSys>>

avr_system_enable_interrupts ==
    /\ ForegroundFree
    /\ sreg_I' = sei(sreg_I)
    /\ UNCHANGED <<timsk2, sysVars, notSys>>

\* entry of get_tick / get_uptime_ms: the NULL check and sreg = SREG
sys_enter(op, is_null) ==
    /\ ForegroundFree
    /\ sys_call' = IF is_null
                   THEN [SysIdleCall EXCEPT !.op = op, !.pc = "done",
                                            !.ret = EER_HAL_INVALID_PARAM]
                   ELSE [SysIdleCall EXCEPT !.op = op, !.pc = "cli",
                                            !.sreg = sreg_I]
    /\ UNCHANGED <<cpuVars, system_ticks, system_initialized, tccr2b, notSys>>

avr_system_get_tick(is_null) == sys_enter("get_tick", is_null)

avr_system_get_uptime_ms(is_null) == sys_enter("get_uptime_ms", is_null)

\* one step of the call in progress: cli(); the four byte loads of
\* local_ticks.value = system_ticks; SREG = sreg with the store to *ticks
Sys_Step ==
    /\ sys_call.pc \in {"cli", "read", "restore"}
    /\ CASE sys_call.pc = "cli" ->
              /\ sreg_I' = cli(sreg_I)
              /\ sys_call' = [sys_call EXCEPT !.pc = "read", !.i = 1,
                                              !.lo = system_ticks]
         [] sys_call.pc = "read" ->
              /\ sys_call' = [sys_call EXCEPT
                    !.local[sys_call.i] = system_ticks[sys_call.i],
                    !.i = @ + 1,
                    !.pc = IF sys_call.i = 4 THEN "restore" ELSE "read"]
              /\ UNCHANGED sreg_I
         [] sys_call.pc = "restore" ->
              /\ sreg_I' = sys_call.sreg
              /\ sys_call' = [sys_call EXCEPT !.pc = "done",
                                              !.hi = system_ticks,
                                              !.out = sys_call.local,
                                              !.ret = EER_HAL_OK]
    /\ UNCHANGED <<timsk2, system_ticks, system_initialized, tccr2b, notSys>>

Sys_Return ==
    /\ sys_call.pc = "done"
    /\ sys_call' = SysIdleCall
    /\ UNCHANGED <<cpuVars, system_ticks, system_initialized, tccr2b, notSys>>

\* ISR(TIMER2_COMPA_vect): runs when Timer2 counts, its compare interrupt
\* is enabled and the global interrupt flag is set
TIMER2_COMPA_vect ==
    /\ sreg_I
    /\ "OCIE2A" \in timsk2
    /\ "CS22" \in tccr2b
    /\ TicksBelow(system_ticks, MaxTicks)
    /\ system_ticks' = TickInc(system_ticks)
    /\ sys_call' = IF sys_call.pc \in {"idle", "done"} THEN sys_call
                   ELSE [sys_call EXCEPT !.irq = TRUE]
    /\ UNCHANGED <<cpuVars, system_initialized, tccr2b, notSys>>

Sys_Call ==
    \E is_null \in BOOLEAN :
        \/ avr_system_get_tick(is_null)
        \/ avr_system_get_uptime_ms(is_null)

NextSys ==
    \/ avr_system_init
    \/ avr_system_deinit
    \/ avr_system_disable_interrupts
    \/ avr_system_enable_interrupts
    \/ Sys_Call
    \/ Sys_Step
    \/ Sys_Return
    \/ TIMER2_COMPA_vect

SpecSys == Init /\ [][NextSys]_vars

\* C6: for every interleaving of the tick interrupt with get_tick, the four
\* bytes are loaded with the global interrupt flag cleared, and the value
\* get_tick stores is a value the counter held at one instant between
\* the moment interrupts were disabled and the moment they were restored
\* (never low bytes from before an increment with high bytes from after).
C6_TickReadIsAtomic ==
    /\ sys_call.pc = "read" => ~sreg_I
    /\ (sys_call.pc = "done" /\ sys_call.ret = EER_HAL_OK) =>
          /\ TickLE(sys_call.lo, sys_call.out)
          /\ TickLE(sys_call.out, sys_call.hi)

\* a call during which the tick interrupt ran returned 0x00000100, the
\* value whose second byte had just been carried into
C6_Witness ==
    /\ sys_call.pc = "done"
    /\ sys_call.op = "get_tick"
    /\ sys_call.irq
    /\ sys_call.out = <<0, 1, 0, 0>>

(***************************************************************************)
(* Power driver: sleep modes and wake interrupts                           *)
(***************************************************************************)
WakeupSources == {"EER_WAKEUP_PIN", "EER_WAKEUP_RTC", "EER_WAKEUP_TIMER",
                  "EER_WAKEUP_WATCHDOG"}

InvalidWakeupSource == "4"       \* a value outside eer_wakeup_source_t

WakeupIds == {0, 1, 2}

\* the hardware sleep mode set_mode selects for a sleep variant
sleep_mode_of(mode) ==
    CASE mode = "EER_POWER_MODE_SLEEP"      -> "SLEEP_MODE_IDLE"
      [] mode = "EER_POWER_MODE_DEEP_SLEEP" -> "SLEEP_MODE_PWR_SAVE"
      [] mode = "EER_POWER_MODE_STANDBY"    -> "SLEEP_MODE_PWR_DOWN"

\* the sequence without its last statement
sleep_sequence_without_disable ==
    <<"set_sleep_mode", "sleep_enable", "sei", "sleep_cpu">>

\* the statements of one sleep case of set_mode, in program order
sleep_sequence ==
    <<"set_sleep_mode", "sleep_enable", "sei", "sleep_cpu", "sleep_disable">>

power_returns(op, ret) ==
    power_call' = [PowerIdleCall EXCEPT !.op = op, !.pc = "done", !.ret = ret]

avr_power_set_mode(mode) ==
    /\ ForegroundFree
    /\ power_log' = <<>>
    /\ power_woken' = FALSE
    /\ wake_count' = 0
    /\ IF mode = "EER_POWER_MODE_RUN"
       THEN /\ current_power_mode' = mode
            /\ power_call' = [PowerIdleCall EXCEPT !.op = "set_mode",
                                 !.pc = "done", !.mode = mode,
                                 !.ret = EER_HAL_OK]
       ELSE IF mode \in SleepVariants
       THEN /\ power_call' = [PowerIdleCall EXCEPT !.op = "set_mode",
                                 !.pc = "run", !.i = 1, !.mode = mode]
            /\ UNCHANGED current_power_mode
       ELSE /\ power_call' = [PowerIdleCall EXCEPT !.op = "set_mode",
                                 !.pc = "done", !.mode = mode,
                                 !.ret = EER_HAL_INVALID_PARAM]
            /\ UNCHANGED current_power_mode
    /\ UNCHANGED <<smcr, eimsk, wdtcsr, last_wakeup, cpu_asleep, cpuVars,
                   notPower>>

\* what the registers look like after a statement of the sequence
power_observed(step) ==
    [step |-> step, sm |-> smcr'.sm, se |-> smcr'.se, I |-> sreg_I',
     asleep |-> cpu_asleep']

\* the next statement of the sleep case; after the last one
\* current_power_mode = mode and return EER_HAL_OK.  The CPU executes
\* nothing while it sleeps.
Power_Step ==
    /\ power_call.pc = "run"
    /\ ~cpu_asleep
    /\ IF power_call.i <= Len(sleep_sequence)
       THEN LET step == sleep_sequence[power_call.i] IN
            /\ smcr' = CASE step = "set_sleep_mode" ->
                              [smcr EXCEPT !.sm = sleep_mode_of(power_call.mode)]
                         [] step = "sleep_enable" -> [smcr EXCEPT !.se = TRUE]
                         [] step = "sleep_disable" -> [smcr EXCEPT !.se = FALSE]
                         [] OTHER -> smcr
            /\ sreg_I' = IF step = "sei" THEN sei(sreg_I) ELSE sreg_I
            /\ cpu_asleep' = (step = "sleep_cpu" /\ smcr.se)
            /\ power_log' = Append(power_log, power_observed(step))
            /\ power_call' = [power_call EXCEPT !.i = @ + 1]
            /\ UNCHANGED current_power_mode
       ELSE /\ current_power_mode' = power_call.mode
            /\ power_call' = [power_call EXCEPT !.pc = "done",
                                                !.ret = EER_HAL_OK]
            /\ UNCHANGED <<smcr, sreg_I, cpu_asleep, power_log>>
    /\ UNCHANGED <<eimsk, wdtcsr, last_wakeup, power_woken, wake_count, timsk2,
                   notPower>>

Power_Return ==
    /\ power_call.pc = "done"
    /\ power_call' = PowerIdleCall
    /\ UNCHANGED <<smcr, eimsk, wdtcsr, current_power_mode, last_wakeup,
                   cpu_asleep, power_log, power_woken, wake_count, cpuVars,
                   notPower>>

avr_power_enable_wakeup_source(source, pin_or_id) ==
    /\ ForegroundFree
    /\ CASE source = "EER_WAKEUP_PIN" /\ pin_or_id \in {0, 1} ->
              /\ eimsk' = eimsk \cup {IF pin_or_id = 0 THEN "INT0" ELSE "INT1"}
              /\ power_returns("enable_wakeup_source", EER_HAL_OK)
              /\ UNCHANGED <<timsk2, wdtcsr>>
         [] source = "EER_WAKEUP_PIN" /\ pin_or_id \notin {0, 1} ->
              /\ power_returns("enable_wakeup_source", EER_HAL_INVALID_PARAM)
              /\ UNCHANGED <<eimsk, timsk2, wdtcsr>>
         [] source = "EER_WAKEUP_TIMER" ->
              /\ timsk2' = timsk2 \cup {"TOIE2"}
              /\ power_returns("enable_wakeup_source", EER_HAL_OK)
              /\ UNCHANGED <<eimsk, wdtcsr>>
         [] source = "EER_WAKEUP_WATCHDOG" ->
              /\ wdtcsr' = wdtcsr \cup {"WDIE"}
              /\ power_returns("enable_wakeup_source", EER_HAL_OK)
              /\ UNCHANGED <<eimsk, timsk2>>
         [] source = "EER_WAKEUP_RTC" ->
              /\ power_returns("enable_wakeup_source", EER_HAL_NOT_SUPPORTED)
              /\ UNCHANGED <<eimsk, timsk2, wdtcsr>>
         [] OTHER ->
              /\ power_returns("enable_wakeup_source", EER_HAL_INVALID_PARAM)
              /\ UNCHANGED <<eimsk, timsk2, wdtcsr>>
    /\ UNCHANGED <<smcr, current_power_mode, last_wakeup, cpu_asleep,
                   power_log, power_woken, wake_count, sreg_I, notPower>>

avr_power_disable_wakeup_source(source, pin_or_id) ==
    /\ ForegroundFree
    /\ CASE source = "EER_WAKEUP_PIN" /\ pin_or_id \in {0, 1} ->
              /\ eimsk' = eimsk \ {IF pin_or_id = 0 THEN "INT0" ELSE "INT1"}
              /\ power_returns("disable_wakeup_source", EER_HAL_OK)
              /\ UNCHANGED <<timsk2, wdtcsr>>
         [] source = "EER_WAKEUP_PIN" /\ pin_or_id \notin {0, 1} ->
              /\ power_returns("disable_wakeup_source", EER_HAL_INVALID_PARAM)
              /\ UNCHANGED <<eimsk, timsk2, wdtcsr>>
         [] source = "EER_WAKEUP_TIMER" ->
              /\ timsk2' = timsk2 \ {"TOIE2"}
              /\ power_returns("disable_wakeup_source", EER_HAL_OK)
              /\ UNCHANGED <<eimsk, wdtcsr>>
         [] source = "EER_WAKEUP_WATCHDOG" ->
              /\ wdtcsr' = wdtcsr \ {"WDIE"}
              /\ power_returns("disable_wakeup_source", EER_HAL_OK)
              /\ UNCHANGED <<eimsk, timsk2>>
         [] source = "EER_WAKEUP_RTC" ->
              /\ power_returns("disable_wakeup_source", EER_HAL_NOT_SUPPORTED)
              /\ UNCHANGED <<eimsk, timsk2, wdtcsr>>
         [] OTHER ->
              /\ power_returns("disable_wakeup_source", EER_HAL_INVALID_PARAM)
              /\ UNCHANGED <<eimsk, timsk2, wdtcsr>>
    /\ UNCHANGED <<smcr, current_power_mode, last_wakeup, cpu_asleep,
                   power_log, power_woken, wake_count, sreg_I, notPower>>

\* *mode = current_power_mode
avr_power_get_mode(is_null) ==
    /\ ForegroundFree
    /\ IF is_null
       THEN power_returns("get_mode", EER_HAL_INVALID_PARAM)
       ELSE power_call' = [PowerIdleCall EXCEPT !.op = "get_mode",
                              !.pc = "done", !.ret = EER_HAL_OK,
                              !.out = current_power_mode]
    /\ UNCHANGED <<smcr, eimsk, wdtcsr, current_power_mode, last_wakeup,
                   cpu_asleep, power_log, power_woken, wake_count, cpuVars,
                   notPower>>

\* the estimate (mW) the switch on current_power_mode selects
power_estimate(mode) ==
    CASE mode = "EER_POWER_MODE_RUN"        -> 15
      [] mode = "EER_POWER_MODE_SLEEP"      -> 5
      [] mode = "EER_POWER_MODE_DEEP_SLEEP" -> 2
      [] mode = "EER_POWER_MODE_STANDBY"    -> 1
      [] OTHER                              -> 0

avr_power_get_power_consumption(is_null) ==
    /\ ForegroundFree
    /\ IF is_null
       THEN power_returns("get_power_consumption", EER_HAL_INVALID_PARAM)
       ELSE power_call' = [PowerIdleCall EXCEPT
                              !.op = "get_power_consumption",
                              !.pc = "done", !.ret = EER_HAL_OK,
                              !.out = power_estimate(current_power_mode)]
    /\ UNCHANGED <<smcr, eimsk, wdtcsr, current_power_mode, last_wakeup,
                   cpu_asleep, power_log, power_woken, wake_count, cpuVars,
                   notPower>>

\* the NULL checks of get_wakeup_source; the two loads follow one by one
avr_power_get_wakeup_source(source_null, id_null) ==
    /\ ForegroundFree
    /\ IF source_null \/ id_null
       THEN power_returns("get_wakeup_source", EER_HAL_INVALID_PARAM)
       ELSE power_call' = [PowerIdleCall EXCEPT !.op = "get_wakeup_source",
                              !.pc = "read", !.i = 1,
                              !.out = [source |-> NULL, pin_or_id |-> NULL]]
    /\ UNCHANGED <<smcr, eimsk, wdtcsr, current_power_mode, last_wakeup,
                   cpu_asleep, power_log, power_woken, wake_count, cpuVars,
                   notPower>>

\* *source = last_wakeup.source; then *pin_or_id = last_wakeup.pin_or_id;
\* return EER_HAL_OK.  Interrupts are not masked between the two loads.
Power_ReadStep ==
    /\ power_call.pc = "read"
    /\ IF power_call.i = 1
       THEN power_call' = [power_call EXCEPT !.i = 2,
                              !.out.source = last_wakeup.source]
       ELSE power_call' = [power_call EXCEPT !.pc = "done",
                              !.ret = EER_HAL_OK,
                              !.out.pin_or_id = last_wakeup.pin_or_id]
    /\ UNCHANGED <<smcr, eimsk, wdtcsr, current_power_mode, last_wakeup,
                   cpu_asleep, power_log, power_woken, wake_count, cpuVars,
                   notPower>>

\* the instruction following SEI is executed before any pending interrupt
\* (sei() and sleep_cpu() are adjacent instructions)
JustAfterSei ==
    /\ power_call.pc = "run"
    /\ power_call.i > 1
    /\ power_call.i <= Len(sleep_sequence)
    /\ sleep_sequence[power_call.i - 1] = "sei"

\* a wake interrupt handler: it records the wakeup source; taking the
\* interrupt ends the sleep of the CPU
wake_isr(enabled, source, pin_or_id) ==
    /\ sreg_I
    /\ enabled
    /\ ~JustAfterSei
    /\ last_wakeup' = [source |-> source, pin_or_id |-> pin_or_id]
    /\ cpu_asleep' = FALSE
    /\ power_woken' = (power_woken \/ cpu_asleep)
    /\ wake_count' = IF power_call.op = "set_mode" /\ power_call.pc = "run"
                     THEN (IF wake_count < 2 THEN wake_count + 1 ELSE 2)
                     ELSE wake_count
    /\ UNCHANGED <<smcr, eimsk, wdtcsr, current_power_mode, power_call,
                   power_log, cpuVars, notPower>>

INT0_vect == wake_isr("INT0" \in eimsk, "EER_WAKEUP_PIN", 0)

INT1_vect == wake_isr("INT1" \in eimsk, "EER_WAKEUP_PIN", 1)

\* Timer2 does not run in power-down mode
TIMER2_OVF_vect ==
    wake_isr("TOIE2" \in timsk2
                /\ (cpu_asleep => smcr.sm # "SLEEP_MODE_PWR_DOWN"),
             "EER_WAKEUP_TIMER", 2)

WDT_vect == wake_isr("WDIE" \in wdtcsr, "EER_WAKEUP_WATCHDOG", 0)

Power_Call ==
    \/ \E mode \in PowerModes \cup {InvalidPowerMode} :
           avr_power_set_mode(mode)
    \/ \E source \in WakeupSources \cup {InvalidWakeupSource},
          pin_or_id \in WakeupIds :
           \/ avr_power_enable_wakeup_source(source, pin_or_id)
           \/ avr_power_disable_wakeup_source(source, pin_or_id)
    \/ \E is_null \in BOOLEAN :
           \/ avr_power_get_mode(is_null)
           \/ avr_power_get_power_consumption(is_null)
    \/ \E source_null \in BOOLEAN, id_null \in BOOLEAN :
           avr_power_get_wakeup_source(source_null, id_null)

NextPower ==
    \/ Power_Call
    \/ Power_Step
    \/ Power_ReadStep
    \/ Power_Return
    \/ avr_system_disable_interrupts
    \/ avr_system_enable_interrupts
    \/ INT0_vect
    \/ INT1_vect
    \/ TIMER2_OVF_vect
    \/ WDT_vect

SpecPower == Init /\ [][NextPower]_vars

\* C7: a set_mode call for SLEEP, DEEP_SLEEP or STANDBY executes, in this
\* order: select the hardware sleep mode of the variant, set sleep-enable,
\* enable global interrupts, enter the low-power state (with sleep-enable
\* and the interrupt flag set); it has returned only after an interrupt
\* woke the CPU from that sleep, it returns OK, and at its return the
\* sleep-enable bit is clear.
C7_SleepSequence ==
    (power_call.op = "set_mode" /\ power_call.mode \in SleepVariants) =>
        /\ Len(power_log) <= 5
        /\ Len(power_log) >= 1 =>
              /\ power_log[1].step = "set_sleep_mode"
              /\ power_log[1].sm = sleep_mode_of(power_call.mode)
        /\ Len(power_log) >= 2 =>
              /\ power_log[2].step = "sleep_enable"
              /\ power_log[2].se
        /\ Len(power_log) >= 3 =>
              /\ power_log[3].step = "sei"
              /\ power_log[3].I
        /\ Len(power_log) >= 4 =>
              /\ power_log[4].step = "sleep_cpu"
              /\ power_log[4].asleep
              /\ power_log[4].se
              /\ power_log[4].I
              /\ power_log[4].sm = sleep_mode_of(power_call.mode)
        /\ Len(power_log) >= 5 =>
              /\ power_log[5].step = "sleep_disable"
              /\ power_woken
        /\ power_call.pc = "done" =>
              /\ Len(power_log) = 5
              /\ power_woken
              /\ power_call.ret = EER_HAL_OK
              /\ ~smcr.se

\* a STANDBY call has returned after the watchdog interrupt woke the CPU
C7_Witness ==
    /\ power_call.op = "set_mode"
    /\ power_call.pc = "done"
    /\ power_call.mode = "EER_POWER_MODE_STANDBY"
    /\ power_woken
    /\ last_wakeup.source = "EER_WAKEUP_WATCHDOG"

(***************************************************************************)
(* Timer1 driver                                                           *)
(***************************************************************************)
\* the clock-select (prescaler) bits of TCCR1B
CsBits == {"CS12", "CS11", "CS10"}

InvalidTimerEvent == "3"         \* a value outside eer_timer_event_t

\* the (event, channel) arguments tried: one per slot, a channel that is
\* neither 0 nor 1, an event outside the enumeration
TimerSources ==
    {<<"EER_TIMER_EVENT_OVERFLOW", 0>>, <<"EER_TIMER_EVENT_COMPARE", 0>>,
     <<"EER_TIMER_EVENT_COMPARE", 1>>, <<"EER_TIMER_EVENT_COMPARE", 2>>,
     <<"EER_TIMER_EVENT_CAPTURE", 0>>, <<InvalidTimerEvent, 0>>}

\* a call returned: what it was, its argument (the period of set_period)
\* and its status
timer_returns(op, arg, ret) ==
    timer_last' = [timer_last EXCEPT !.op = op, !.arg = arg, !.ret = ret,
                                     !.called = FALSE]

avr_timer_init(is_null, mode, period) ==
    /\ ForegroundFree
    /\ IF is_null
       THEN /\ timer_returns("init", 0, EER_HAL_INVALID_PARAM)
            /\ UNCHANGED <<tccra, tccrb, timsk, tcnt, icr, timer_config>>
       ELSE /\ timer_config' = [mode |-> mode, period |-> period]
            /\ tccra' = IF mode = "EER_TIMER_MODE_PWM"
                        THEN {"WGM11", "COM1A1", "COM1B1"} ELSE {}
            /\ tccrb' = (IF mode = "EER_TIMER_MODE_PWM"
                         THEN {"WGM13", "WGM12"} ELSE {}) \cup {"CS11"}
            /\ timsk' = {}
            /\ tcnt' = 0
            /\ icr' = IF mode = "EER_TIMER_MODE_PWM"
                      THEN period % 65536 ELSE icr
            /\ timer_returns("init", 0, EER_HAL_OK)
    /\ UNCHANGED <<timer_callbacks, ocra, ocrb,
                   notTimer>>

avr_timer_deinit ==
    /\ ForegroundFree
    /\ tccrb' = tccrb \ CsBits
    /\ timsk' = {}
    /\ timer_callbacks' = [s \in TimerSlots |-> EmptySlot]
    /\ timer_returns("deinit", 0, EER_HAL_OK)
    /\ UNCHANGED <<tccra, tcnt, icr, timer_config, ocra, ocrb,
                   notTimer>>

avr_timer_start ==
    /\ ForegroundFree
    /\ tcnt' = 0
    /\ tccrb' = tccrb \cup {"CS11"}
    /\ timer_last' = [timer_last EXCEPT !.op = "start", !.arg = 0,
                                        !.ret = EER_HAL_OK, !.called = FALSE,
                                        !.fired = FALSE]
    /\ UNCHANGED <<tccra, timsk, icr, timer_callbacks, timer_config,
                   ocra, ocrb, notTimer>>

avr_timer_stop ==
    /\ ForegroundFree
    /\ tccrb' = tccrb \ CsBits
    /\ timer_returns("stop", 0, EER_HAL_OK)
    /\ UNCHANGED <<tccra, timsk, tcnt, icr, timer_callbacks, timer_config,
                   ocra, ocrb, notTimer>>

\* every period is accepted
set_period_accepts_all(period) == TRUE

\* the period fits the 16-bit timer
set_period_accepts(period) == ~(period > 65535)

avr_timer_set_period(period) ==
    /\ ForegroundFree
    /\ IF ~set_period_accepts(period)
       THEN /\ timer_returns("set_period", period, EER_HAL_INVALID_PARAM)
            /\ UNCHANGED <<icr, timsk, timer_config>>
       ELSE /\ IF timer_config.mode = "EER_TIMER_MODE_PWM"
               THEN /\ icr' = period % 65536
                    /\ UNCHANGED timsk
               ELSE /\ timsk' = IF timer_callbacks["overflow"].handler # NULL
                                THEN timsk \cup {"TOIE1"} ELSE timsk
                    /\ UNCHANGED icr
            /\ timer_config' = [timer_config EXCEPT !.period = period]
            /\ timer_returns("set_period", period, EER_HAL_OK)
    /\ UNCHANGED <<tccra, tccrb, tcnt, timer_callbacks, ocra, ocrb,
                   notTimer>>

\* the slot and the interrupt enable bit of an event and channel ("none"
\* when register_callback and unregister_callback reject them)
timer_slot(event, channel) ==
    CASE event = "EER_TIMER_EVENT_OVERFLOW" -> "overflow"
      [] event = "EER_TIMER_EVENT_COMPARE" /\ channel = 0 -> "compare_a"
      [] event = "EER_TIMER_EVENT_COMPARE" /\ channel = 1 -> "compare_b"
      [] event = "EER_TIMER_EVENT_CAPTURE" -> "capture"
      [] OTHER -> "none"

\* (mutant) every source shares the overflow interrupt enable bit
timer_enable_bit_shared(slot) == "TOIE1"

timer_enable_bit(slot) ==
    CASE slot = "overflow"  -> "TOIE1"
      [] slot = "compare_a" -> "OCIE1A"
      [] slot = "compare_b" -> "OCIE1B"
      [] slot = "capture"   -> "ICIE1"

avr_timer_register_callback(event, channel, handler, user_data) ==
    /\ ForegroundFree
    /\ LET slot == timer_slot(event, channel) IN
       IF handler = NULL \/ slot = "none"
       THEN /\ timer_returns("register_callback", 0,
                             EER_HAL_INVALID_PARAM)
            /\ UNCHANGED <<timer_callbacks, timsk>>
       ELSE /\ timer_callbacks' = [timer_callbacks EXCEPT
                    ![slot] = [handler |-> handler, user_data |-> user_data]]
            /\ timsk' = timsk \cup {timer_enable_bit(slot)}
            /\ timer_returns("register_callback", 0, EER_HAL_OK)
    /\ UNCHANGED <<tccra, tccrb, tcnt, icr, timer_config, ocra, ocrb,
                   notTimer>>

avr_timer_unregister_callback(event, channel) ==
    /\ ForegroundFree
    /\ LET slot == timer_slot(event, channel) IN
       IF slot = "none"
       THEN /\ timer_returns("unregister_callback", 0,
                             EER_HAL_INVALID_PARAM)
            /\ UNCHANGED <<timer_callbacks, timsk>>
       ELSE /\ timer_callbacks' = [timer_callbacks EXCEPT ![slot] = EmptySlot]
            /\ timsk' = timsk \ {timer_enable_bit(slot)}
            /\ timer_returns("unregister_callback", 0, EER_HAL_OK)
    /\ UNCHANGED <<tccra, tccrb, tcnt, icr, timer_config, ocra, ocrb,
                   notTimer>>

\* a Timer1 interrupt handler: it calls the handler of its slot if one is
\* registered; the overflow and compare-A handlers then stop the timer in
\* one-shot mode
timer_isr(vect, slot, stops_one_shot) ==
    /\ sreg_I
    /\ timer_enable_bit(slot) \in timsk
    /\ LET one_shot == stops_one_shot
                       /\ timer_config.mode = "EER_TIMER_MODE_ONE_SHOT" IN
       /\ tccrb' = IF one_shot THEN tccrb \ CsBits ELSE tccrb
       /\ timer_last' = [timer_last EXCEPT
             !.op = vect, !.arg = 0, !.ret = NULL,
             !.called = (timer_callbacks[slot].handler # NULL),
             !.fired = (@ \/ one_shot)]
    /\ UNCHANGED <<tccra, timsk, tcnt, icr, timer_callbacks, timer_config,
                   ocra, ocrb, notTimer>>

TIMER1_OVF_vect == timer_isr("TIMER1_OVF_vect", "overflow", TRUE)

TIMER1_COMPA_vect == timer_isr("TIMER1_COMPA_vect", "compare_a", TRUE)

TIMER1_COMPB_vect == timer_isr("TIMER1_COMPB_vect", "compare_b", FALSE)

TIMER1_CAPT_vect == timer_isr("TIMER1_CAPT_vect", "capture", FALSE)

Timer_Call ==
    \/ \E mode \in TimerModes, period \in TimerPeriods :
           avr_timer_init(FALSE, mode, period)
    \/ avr_timer_init(TRUE, "EER_TIMER_MODE_ONE_SHOT", 1000)
    \/ avr_timer_deinit
    \/ avr_timer_start
    \/ avr_timer_stop
    \/ \E period \in TimerPeriods : avr_timer_set_period(period)
    \/ \E src \in TimerSources :
           \/ \E handler \in TimerHandlers, user_data \in UserData :
                  avr_timer_register_callback(src[1], src[2], handler,
                                              user_data)
           \/ avr_timer_unregister_callback(src[1], src[2])
    \/ avr_timer_register_callback("EER_TIMER_EVENT_OVERFLOW", 0, NULL, NULL)

NextTimer ==
    \/ Timer_Call
    \/ avr_system_disable_interrupts
    \/ avr_system_enable_interrupts
    \/ TIMER1_OVF_vect
    \/ TIMER1_COMPA_vect
    \/ TIMER1_COMPB_vect
    \/ TIMER1_CAPT_vect

SpecTimer == Init /\ [][NextTimer]_vars

\* the timer is stopped: no clock-select bit of TCCR1B is set
TimerStopped(b) == b \cap CsBits = {}

\* C8: the timer's initial state is stopped: when init has returned OK the
\* clock-select bits are all clear; they go from all clear to not all clear
\* only in a call of start; when stop has returned they are all clear.
C8_StoppedUntilStart ==
    [][/\ (timer_last'.op = "init" /\ timer_last'.ret = EER_HAL_OK)
              => TimerStopped(tccrb')
       /\ (TimerStopped(tccrb) /\ ~TimerStopped(tccrb'))
              => timer_last'.op = "start"
       /\ timer_last'.op = "stop" => TimerStopped(tccrb')]_vars

\* C9: in ONE_SHOT mode every run of the overflow or compare-A handler
\* leaves the clock-select bits all clear, whether or not it called a
\* callback, and they stay clear until start is called; in CONTINUOUS and
\* PWM mode these handlers leave TCCR1B unchanged; the compare-B and the
\* capture handler never change it.
C9_OneShotStops ==
    [][/\ (TIMER1_OVF_vect \/ TIMER1_COMPA_vect) =>
              IF timer_config.mode = "EER_TIMER_MODE_ONE_SHOT"
              THEN TimerStopped(tccrb') ELSE tccrb' = tccrb
       /\ (TIMER1_COMPB_vect \/ TIMER1_CAPT_vect) => tccrb' = tccrb
       /\ timer_last'.fired => TimerStopped(tccrb')]_vars

\* C10: set_period(p) with p <= 0xFFFF returns OK and records p; in PWM
\* mode it writes p to ICR1 and nothing else; in the other modes it leaves
\* ICR1 alone and sets TOIE1 exactly when an overflow callback is registered,
\* changing no other register; with p > 0xFFFF it returns INVALID_PARAM and
\* changes neither the registers nor the recorded configuration.
C10_SetPeriod ==
    [][\A p \in TimerPeriods :
         avr_timer_set_period(p) =>
           IF p <= 65535
           THEN /\ timer_last'.ret = EER_HAL_OK
                /\ timer_config' = [timer_config EXCEPT !.period = p]
                /\ UNCHANGED <<tccra, tccrb, tcnt, ocra, ocrb, timer_callbacks>>
                /\ IF timer_config.mode = "EER_TIMER_MODE_PWM"
                   THEN icr' = p /\ timsk' = timsk
                   ELSE /\ icr' = icr
                        /\ timsk' = IF timer_callbacks["overflow"].handler # NULL
                                    THEN timsk \cup {"TOIE1"} ELSE timsk
           ELSE /\ timer_last'.ret = EER_HAL_INVALID_PARAM
                /\ UNCHANGED <<tccra, tccrb, timsk, tcnt, icr, ocra, ocrb,
                               timer_callbacks, timer_config>>]_vars

\* set_period(0xFFFF) has returned in CONTINUOUS mode after an init had
\* cleared TIMSK1 under a registered overflow callback: it set TOIE1 again
\* and left ICR1, still 1000 from an earlier PWM init, alone
C10_Witness ==
    /\ timer_last.op = "set_period"
    /\ timer_last.ret = EER_HAL_OK
    /\ timer_last.arg = 65535
    /\ timer_config = [mode |-> "EER_TIMER_MODE_CONTINUOUS", period |-> 65535]
    /\ timer_callbacks["overflow"].handler # NULL
    /\ timsk = {"TOIE1"}
    /\ icr = 1000

(***************************************************************************)
(* Timer1 driver: compare registers and PWM duty cycle                     *)
(***************************************************************************)
PwmPeriods == TimerPeriods \cup {0}

DutyCycles == {0, 50, 100, 101}  \* uint8_t duty_cycle

CompareValues == {300, 65535, 65536}

TimerChannels == {0, 1, 2}

\* uint16_t compare_value = (current_config.period * duty_cycle) / 100:
\* a 32-bit product (below 2^32 for the periods above), divided, then
\* narrowed to 16 bits
pwm_compare_value(period, duty_cycle) ==
    ((period * duty_cycle) \div 100) % 65536

\* set_compare with the range check left out
set_compare_accepts_all(value) == TRUE

set_compare_accepts(value) == ~(value > 65535)

avr_timer_set_compare(channel, value) ==
    /\ ForegroundFree
    /\ IF ~set_compare_accepts(value) \/ channel \notin {0, 1}
       THEN /\ timer_returns("set_compare", 0, EER_HAL_INVALID_PARAM)
            /\ UNCHANGED <<ocra, ocrb>>
       ELSE /\ ocra' = IF channel = 0 THEN value % 65536 ELSE ocra
            /\ ocrb' = IF channel = 1 THEN value % 65536 ELSE ocrb
            /\ timer_returns("set_compare", 0, EER_HAL_OK)
    /\ UNCHANGED <<tccra, tccrb, timsk, tcnt, icr, timer_callbacks,
                   timer_config, notTimer>>

avr_timer_set_pwm_duty_cycle(channel, duty_cycle) ==
    /\ ForegroundFree
    /\ IF \/ duty_cycle > 100
          \/ timer_config.mode # "EER_TIMER_MODE_PWM"
          \/ channel \notin {0, 1}
       THEN /\ timer_returns("set_pwm_duty_cycle", 0, EER_HAL_INVALID_PARAM)
            /\ UNCHANGED <<ocra, ocrb>>
       ELSE LET compare_value ==
                    pwm_compare_value(timer_config.period, duty_cycle) IN
            /\ ocra' = IF channel = 0 THEN compare_value ELSE ocra
            /\ ocrb' = IF channel = 1 THEN compare_value ELSE ocrb
            /\ timer_returns("set_pwm_duty_cycle", 0, EER_HAL_OK)
    /\ UNCHANGED <<tccra, tccrb, timsk, tcnt, icr, timer_callbacks,
                   timer_config, notTimer>>

Pwm_Call ==
    \/ \E mode \in TimerModes, period \in PwmPeriods :
           avr_timer_init(FALSE, mode, period)
    \/ \E period \in TimerPeriods : avr_timer_set_period(period)
    \/ \E channel \in TimerChannels :
           \/ \E value \in CompareValues :
                  avr_timer_set_compare(channel, value)
           \/ \E duty_cycle \in DutyCycles :
                  avr_timer_set_pwm_duty_cycle(channel, duty_cycle)

NextPwm == Pwm_Call

SpecPwm == Init /\ [][NextPwm]_vars

\* C11: in PWM mode with period P, set_pwm_duty_cycle(channel, d) with
\* channel 0 or 1 and d <= 100 returns OK, sets the compare register of that
\* channel to floor(P * d / 100) and leaves the other compare register
\* unchanged.
C11_DutyCycleSetsCompare ==
    [][\A channel \in {0, 1}, d \in DutyCycles :
         (/\ avr_timer_set_pwm_duty_cycle(channel, d)
          /\ d <= 100
          /\ timer_config.mode = "EER_TIMER_MODE_PWM") =>
            /\ timer_last'.ret = EER_HAL_OK
            /\ IF channel = 0
               THEN /\ ocra' = (timer_config.period * d) \div 100
                    /\ ocrb' = ocrb
               ELSE /\ ocrb' = (timer_config.period * d) \div 100
                    /\ ocra' = ocra]_vars

\* C12: set_pwm_duty_cycle returns INVALID_PARAM and leaves both compare
\* registers and the stored configuration (and every other register)
\* unchanged when the duty cycle is above 100, the mode is not PWM or the
\* channel is neither 0 nor 1; set_compare returns INVALID_PARAM and writes
\* no register when the channel is neither 0 nor 1 or the value is above
\* 0xFFFF.
C12_RejectsWithoutWriting ==
    [][/\ \A channel \in TimerChannels, d \in DutyCycles :
            (/\ avr_timer_set_pwm_duty_cycle(channel, d)
             /\ \/ d > 100
                \/ timer_config.mode # "EER_TIMER_MODE_PWM"
                \/ channel \notin {0, 1}) =>
               /\ timer_last'.ret = EER_HAL_INVALID_PARAM
               /\ UNCHANGED <<ocra, ocrb, icr, tccra, tccrb, timsk, tcnt,
                              timer_config>>
       /\ \A channel \in TimerChannels, value \in CompareValues :
            (/\ avr_timer_set_compare(channel, value)
             /\ (channel \notin {0, 1} \/ value > 65535)) =>
               /\ timer_last'.ret = EER_HAL_INVALID_PARAM
               /\ UNCHANGED <<ocra, ocrb, icr, tccra, tccrb, timsk, tcnt,
                              timer_config>>]_vars

\* set_compare was refused while OCR1A held the 500 of an earlier 50 % duty
\* cycle of period 1000 and OCR1B the 300 of an earlier set_compare
C12_Witness ==
    /\ timer_last.op = "set_compare"
    /\ timer_last.ret = EER_HAL_INVALID_PARAM
    /\ timer_config = [mode |-> "EER_TIMER_MODE_PWM", period |-> 1000]
    /\ ocra = 500
    /\ ocrb = 300

\* C13: init rejects an inconsistent configuration instead of applying it:
\* init with mode PWM and period 0 does not return OK, and it leaves the
\* stored configuration and the mode, top and clock-select registers as
\* they were.
C13_InitRejectsPwmPeriodZero ==
    [][avr_timer_init(FALSE, "EER_TIMER_MODE_PWM", 0) =>
          /\ timer_last'.ret # EER_HAL_OK
          /\ UNCHANGED <<timer_config, tccra, tccrb, icr>>]_vars

(***************************************************************************)
(* ADC driver                                                              *)
(***************************************************************************)
AdcChannels == {0, 1, 9}         \* uint8_t channel of eer_adc_channel_t

AdcValues == {0, 1023}           \* conversion results

AdcHandlers == {"h1"}

AdcModes == {"EER_ADC_MODE_SINGLE", "EER_ADC_MODE_CONTINUOUS"}

AdcReferences == {"EER_ADC_REF_INTERNAL", "EER_ADC_REF_EXTERNAL",
                  "EER_ADC_REF_VCC"}

\* adc_channel->channel & 0x07
adc_channel_index(channel) == channel % 8

\* A write of `value` to ADCSRA while it holds `old`.  ADIF is cleared by
\* writing a one to it and is not changed by writing a zero, so the
\* read-modify-write statements of the driver (ADCSRA |= ..., ADCSRA &= ...)
\* clear a pending ADIF and a plain assignment without ADIF keeps it.
adcsra_write(old, value) ==
    (value \ {"ADIF"}) \cup
       (IF "ADIF" \in old /\ "ADIF" \notin value THEN {"ADIF"} ELSE {})

adc_returns(op, channel, ret) ==
    adc_call' = [AdcIdleCall EXCEPT !.op = op, !.channel = channel,
                                    !.ret = ret]

AdcFree == adc_call.pc = "idle" /\ ForegroundFree

avr_adc_init(is_null, reference, mode) ==
    /\ AdcFree
    /\ IF is_null
       THEN /\ adc_returns("init", 0, EER_HAL_INVALID_PARAM)
            /\ UNCHANGED <<admux, adcsra, adc_mode>>
       ELSE /\ admux' = [refs |-> CASE reference = "EER_ADC_REF_INTERNAL"
                                         -> {"REFS1", "REFS0"}
                                    [] reference = "EER_ADC_REF_EXTERNAL"
                                         -> {}
                                    [] OTHER -> {"REFS0"},
                         mux |-> 0]
            \* prescaler 128: ADPS2 | ADPS1 | ADPS0
            /\ adcsra' =
                 LET enabled == adcsra_write(adcsra,
                                   {"ADEN", "ADPS2", "ADPS1", "ADPS0"}) IN
                 IF mode = "EER_ADC_MODE_CONTINUOUS"
                 THEN adcsra_write(enabled, enabled \cup {"ADIE"})
                 ELSE enabled
            /\ adc_returns("init", 0, EER_HAL_OK)
            /\ adc_mode' = mode
    /\ UNCHANGED <<adc_data, adc_irq_handlers, adc_events, notADC>>

\* (mutant) deinit that disables the converter and its interrupt but leaves
\* the handler table alone
avr_adc_deinit_keeps_handlers ==
    /\ AdcFree
    /\ adcsra' = adcsra_write(adcsra, adcsra \ {"ADEN", "ADIE"})
    /\ adc_returns("deinit", 0, EER_HAL_OK)
    /\ UNCHANGED <<admux, adc_data, adc_irq_handlers, adc_events, adc_mode, notADC>>

avr_adc_deinit ==
    /\ AdcFree
    /\ adcsra' = adcsra_write(adcsra, adcsra \ {"ADEN", "ADIE"})
    /\ adc_irq_handlers' = [i \in 0..(ADC_CHANNELS - 1) |-> EmptySlot]
    /\ adc_returns("deinit", 0, EER_HAL_OK)
    /\ UNCHANGED <<admux, adc_data, adc_events, adc_mode, notADC>>

avr_adc_start_conversion(is_null, channel) ==
    /\ AdcFree
    /\ IF is_null
       THEN /\ adc_returns("start_conversion", channel, EER_HAL_INVALID_PARAM)
            /\ UNCHANGED <<admux, adcsra>>
       ELSE LET ch == adc_channel_index(channel) IN
            /\ admux' = [admux EXCEPT !.mux = ch]
            /\ adcsra' = adcsra_write(adcsra, adcsra \cup {"ADSC"})
            /\ adc_returns("start_conversion", channel, EER_HAL_OK)
    /\ UNCHANGED <<adc_data, adc_irq_handlers, adc_events, adc_mode, notADC>>

\* avr_adc_read up to the selection of the channel
avr_adc_read(is_null, channel) ==
    /\ AdcFree
    /\ IF is_null
       THEN /\ adc_returns("read", channel, EER_HAL_INVALID_PARAM)
            /\ UNCHANGED admux
       ELSE /\ admux' = [admux EXCEPT !.mux = adc_channel_index(channel)]
            /\ adc_call' = [AdcIdleCall EXCEPT !.op = "read", !.pc = "start",
                                               !.channel = channel]
    /\ UNCHANGED <<adcsra, adc_data, adc_irq_handlers, adc_events, adc_mode, notADC>>

\* (mutant) the flag is never seen set
adc_in_progress_never(reg) == FALSE

\* (ADCSRA & (1 << ADSC)) != 0
adc_in_progress(reg) == "ADSC" \in reg

\* the rest of avr_adc_read, one statement at a time
Adc_Step ==
    /\ adc_call.op = "read"
    /\ CASE adc_call.pc = "start" ->
              \* if ((ADCSRA & (1 << ADSC)) == 0) ADCSRA |= (1 << ADSC);
              /\ adcsra' = IF ~adc_in_progress(adcsra)
                           THEN adcsra_write(adcsra, adcsra \cup {"ADSC"})
                           ELSE adcsra
              /\ adc_call' = [adc_call EXCEPT
                                !.pc = "poll",
                                !.in_flight = adc_in_progress(adcsra),
                                !.started = ~adc_in_progress(adcsra)]
         [] adc_call.pc = "poll" ->
              \* while ((ADCSRA & (1 << ADSC)) != 0);
              /\ adc_call' = [adc_call EXCEPT
                                !.pc = IF adc_in_progress(adcsra)
                                       THEN "poll" ELSE "load"]
              /\ adcsra' = adcsra
         [] adc_call.pc = "load" ->
              \* *value = ADC; return EER_HAL_OK;
              /\ adc_call' = [adc_call EXCEPT !.pc = "done",
                                              !.value = adc_data,
                                              !.ret = EER_HAL_OK]
              /\ adcsra' = adcsra
         [] OTHER -> FALSE
    /\ UNCHANGED <<admux, adc_data, adc_irq_handlers, adc_events, adc_mode, notADC>>

\* read has returned; the foreground program goes on
Adc_Return ==
    /\ adc_call.pc = "done"
    /\ adc_call' = AdcIdleCall
    /\ UNCHANGED <<admux, adcsra, adc_data, adc_irq_handlers, adc_events,
                   adc_mode, notADC>>

avr_adc_register_callback(is_null, channel, handler, user_data) ==
    /\ AdcFree
    /\ IF is_null \/ handler = NULL
       THEN /\ adc_returns("register_callback", channel,
                           EER_HAL_INVALID_PARAM)
            /\ UNCHANGED <<adc_irq_handlers, adcsra>>
       ELSE LET ch == adc_channel_index(channel) IN
            /\ adc_irq_handlers' =
                 [adc_irq_handlers EXCEPT
                    ![ch] = [handler |-> handler, user_data |-> user_data]]
            /\ adcsra' = adcsra_write(adcsra, adcsra \cup {"ADIE"})
            /\ adc_returns("register_callback", channel, EER_HAL_OK)
    /\ UNCHANGED <<admux, adc_data, adc_events, adc_mode, notADC>>

\* (mutant) the interrupt is disabled whatever the other slots hold
adc_any_handlers_none(handlers) == FALSE

\* the loop over the eight slots that computes any_handlers
adc_any_handlers(handlers) ==
    \E i \in 0..(ADC_CHANNELS - 1) : handlers[i].handler # NULL

avr_adc_unregister_callback(is_null, channel) ==
    /\ AdcFree
    /\ IF is_null
       THEN /\ adc_returns("unregister_callback", channel,
                           EER_HAL_INVALID_PARAM)
            /\ UNCHANGED <<adc_irq_handlers, adcsra>>
       ELSE LET ch == adc_channel_index(channel)
                cleared == [adc_irq_handlers EXCEPT ![ch] = EmptySlot] IN
            /\ adc_irq_handlers' = cleared
            /\ adcsra' = IF ~adc_any_handlers(cleared)
                         THEN adcsra_write(adcsra, adcsra \ {"ADIE"})
                         ELSE adcsra
            /\ adc_returns("unregister_callback", channel, EER_HAL_OK)
    /\ UNCHANGED <<admux, adc_data, adc_events, adc_mode, notADC>>

\* The converter finishes the conversion in flight: the result is in ADC,
\* ADSC reads zero and the interrupt flag ADIF is set.
AdcConversionCompletes ==
    /\ "ADEN" \in adcsra
    /\ "ADSC" \in adcsra
    /\ \E v \in AdcValues : adc_data' = v
    /\ adcsra' = (adcsra \ {"ADSC"}) \cup {"ADIF"}
    /\ UNCHANGED <<admux, adc_irq_handlers, adc_call, adc_events, adc_mode, notADC>>

\* ISR(ADC_vect); the hardware clears ADIF when the handler is entered
ADC_vect ==
    /\ sreg_I
    /\ {"ADIE", "ADIF"} \subseteq adcsra
    /\ LET channel == admux.mux
           entered == adcsra \ {"ADIF"} IN
       /\ adc_events' =
            IF adc_irq_handlers[channel].handler # NULL
            THEN <<[handler |-> adc_irq_handlers[channel].handler,
                    user_data |-> adc_irq_handlers[channel].user_data,
                    channel |-> channel, value |-> adc_data]>>
            ELSE <<>>
       /\ adcsra' = IF "ADIE" \in entered
                    THEN adcsra_write(entered, entered \cup {"ADSC"})
                    ELSE entered
    /\ UNCHANGED <<admux, adc_data, adc_irq_handlers, adc_call, adc_mode, notADC>>

Adc_Call ==
    \/ \E reference \in AdcReferences, mode \in AdcModes :
          avr_adc_init(FALSE, reference, mode)
    \/ avr_adc_init(TRUE, "EER_ADC_REF_VCC", "EER_ADC_MODE_SINGLE")
    \/ avr_adc_deinit
    \/ \E is_null \in BOOLEAN, channel \in AdcChannels :
          \/ avr_adc_start_conversion(is_null, channel)
          \/ avr_adc_read(is_null, channel)
          \/ avr_adc_unregister_callback(is_null, channel)
          \/ \E handler \in AdcHandlers \cup {NULL}, user_data \in UserData :
                avr_adc_register_callback(is_null, channel, handler,
                                          user_data)

NextADC ==
    \/ Adc_Call
    \/ Adc_Step
    \/ Adc_Return
    \/ AdcConversionCompletes
    \/ ADC_vect
    \/ AdcFree /\ avr_system_disable_interrupts
    \/ AdcFree /\ avr_system_enable_interrupts

SpecADC == Init /\ [][NextADC]_vars


(***************************************************************************)
(* UART transmit-complete callback                                         *)
(***************************************************************************)
avr_uart_register_tx_callback(handler, user_data) ==
    /\ IF handler = NULL
       THEN UNCHANGED <<uart_callbacks, ucsrb>>
       ELSE /\ uart_callbacks' = [uart_callbacks EXCEPT
                                    !.tx_handler = handler,
                                    !.tx_user_data = user_data]
            /\ ucsrb' = ucsrb \cup {"TXCIE0"}
    /\ UNCHANGED <<ucsra, udr, rx_buffer, rx_head, rx_tail, uart_events>>
    /\ UNCHANGED notUART

avr_uart_unregister_tx_callback ==
    /\ uart_callbacks' = [uart_callbacks EXCEPT !.tx_handler = NULL,
                                                !.tx_user_data = NULL]
    /\ ucsrb' = ucsrb \ {"TXCIE0"}
    /\ UNCHANGED <<ucsra, udr, rx_buffer, rx_head, rx_tail, uart_events>>
    /\ UNCHANGED notUART

\* ISR(USART_TX_vect); the hardware clears TXC0 when the handler is entered
USART_TX_vect ==
    /\ "TXCIE0" \in ucsrb
    /\ "TXC0" \in ucsra
    /\ uart_events' =
         IF uart_callbacks.tx_handler # NULL
         THEN <<[event |-> [handler |-> uart_callbacks.tx_handler,
                            user_data |-> uart_callbacks.tx_user_data]]>>
         ELSE <<>>
    /\ ucsra' = ucsra \ {"TXC0"}
    /\ UNCHANGED <<ucsrb, udr, uart_callbacks, rx_buffer, rx_head, rx_tail>>
    /\ UNCHANGED notUART

\* The transmitter has shifted out a frame with nothing more to send.
UartFrameSent ==
    /\ "TXEN0" \in ucsrb
    /\ "TXC0" \notin ucsra
    /\ ucsra' = ucsra \cup {"TXC0"}
    /\ UNCHANGED <<ucsrb, udr, uart_callbacks, rx_buffer, rx_head, rx_tail,
                   uart_events>>
    /\ UNCHANGED notUART

(***************************************************************************)
(* SPI driver: configuration and callback                                  *)
(***************************************************************************)
SpiModes == {"EER_SPI_MODE_0", "EER_SPI_MODE_3"}

spi_returns(op, ret) == spi_last' = [op |-> op, ret |-> ret]

\* bit order MSB first and prescaler 4: neither sets a bit
avr_spi_init(is_null, master, mode) ==
    /\ ForegroundFree
    /\ IF is_null
       THEN /\ spi_returns("init", EER_HAL_INVALID_PARAM)
            /\ UNCHANGED <<spcr, spsr>>
       ELSE /\ spcr' = {"SPE"}
                       \cup (IF master THEN {"MSTR"} ELSE {})
                       \cup (IF mode = "EER_SPI_MODE_3"
                             THEN {"CPOL", "CPHA"} ELSE {})
            \* SPIF is read-only
            /\ spsr' = spsr \cap {"SPIF"}
            /\ spi_returns("init", EER_HAL_OK)
    /\ UNCHANGED <<spi_callback, spi_events, notSPI>>

avr_spi_deinit ==
    /\ ForegroundFree
    /\ spcr' = {}
    /\ spi_callback' = EmptySlot
    /\ spi_returns("deinit", EER_HAL_OK)
    /\ UNCHANGED <<spsr, spi_events, notSPI>>

avr_spi_register_callback(handler, user_data) ==
    /\ ForegroundFree
    /\ IF handler = NULL
       THEN /\ spi_returns("register_callback", EER_HAL_INVALID_PARAM)
            /\ UNCHANGED <<spi_callback, spcr>>
       ELSE /\ spi_callback' = [handler |-> handler, user_data |-> user_data]
            /\ spcr' = spcr \cup {"SPIE"}
            /\ spi_returns("register_callback", EER_HAL_OK)
    /\ UNCHANGED <<spsr, spi_events, notSPI>>

avr_spi_unregister_callback ==
    /\ ForegroundFree
    /\ spi_callback' = EmptySlot
    /\ spcr' = spcr \ {"SPIE"}
    /\ spi_returns("unregister_callback", EER_HAL_OK)
    /\ UNCHANGED <<spsr, spi_events, notSPI>>

\* The shift register has exchanged a byte: SPIF is set.
SpiByteExchanged ==
    /\ "SPE" \in spcr
    /\ "SPIF" \notin spsr
    /\ spsr' = spsr \cup {"SPIF"}
    /\ UNCHANGED <<spcr, spi_callback, spi_last, spi_events, notSPI>>

\* ISR(SPI_STC_vect); the hardware clears SPIF when the handler is entered
SPI_STC_vect ==
    /\ sreg_I
    /\ "SPIE" \in spcr
    /\ "SPIF" \in spsr
    /\ spsr' = spsr \ {"SPIF"}
    /\ spi_events' =
         IF spi_callback.handler # NULL
         THEN <<[handler |-> spi_callback.handler, tx_data |-> NULL,
                 rx_data |-> NULL, size |-> 0,
                 user_data |-> spi_callback.user_data]>>
         ELSE <<>>
    /\ UNCHANGED <<spcr, spi_callback, spi_last, notSPI>>

(***************************************************************************)
(* The life cycle of the five drivers with callbacks                       *)
(***************************************************************************)
\* The drivers share no variable, so the program under check operates one
\* peripheral while the other four are as they were at reset.
AdcAlone == UARTInit /\ SPIInit /\ I2CInit /\ TimerInit

UartAlone == ADCInit /\ SPIInit /\ I2CInit /\ TimerInit

SpiAlone == ADCInit /\ UARTInit /\ I2CInit /\ TimerInit

I2cAlone == ADCInit /\ UARTInit /\ SPIInit /\ TimerInit

TimerAlone == ADCInit /\ UARTInit /\ SPIInit /\ I2CInit

MaxLifeBytes == 2                \* bytes received in one life of the UART

AdcLife ==
    \/ AdcAlone /\ \E mode \in AdcModes :
                      avr_adc_init(FALSE, "EER_ADC_REF_VCC", mode)
    \/ AdcAlone /\ avr_adc_deinit
    \/ AdcAlone /\ \E channel \in AdcChannels :
                      avr_adc_start_conversion(FALSE, channel)
    \/ AdcAlone /\ \E channel \in AdcChannels :
                      avr_adc_unregister_callback(FALSE, channel)
    \/ AdcAlone /\ \E channel \in AdcChannels, handler \in AdcHandlers,
                      user_data \in UserData :
                      avr_adc_register_callback(FALSE, channel, handler,
                                                user_data)
    \/ AdcAlone /\ AdcConversionCompletes
    \/ AdcAlone /\ ADC_vect

UartLife ==
    \/ UartAlone /\ avr_uart_init
    \/ UartAlone /\ avr_uart_deinit
    \/ UartAlone /\ \E u \in UserData :
                       avr_uart_register_rx_callback("h1", u)
    \/ UartAlone /\ \E u \in UserData :
                       avr_uart_register_tx_callback("h1", u)
    \/ UartAlone /\ avr_uart_unregister_rx_callback
    \/ UartAlone /\ avr_uart_unregister_tx_callback
    \/ UartAlone /\ rx_head < MaxLifeBytes /\ UartByteArrives
    \/ UartAlone /\ USART_RX_vect
    \/ UartAlone /\ UartFrameSent
    \/ UartAlone /\ USART_TX_vect

SpiLife ==
    \/ SpiAlone /\ \E master \in BOOLEAN, mode \in SpiModes :
                      avr_spi_init(FALSE, master, mode)
    \/ SpiAlone /\ avr_spi_init(TRUE, FALSE, "EER_SPI_MODE_0")
    \/ SpiAlone /\ avr_spi_deinit
    \/ SpiAlone /\ \E h \in {NULL, "h1"}, u \in UserData :
                      avr_spi_register_callback(h, u)
    \/ SpiAlone /\ avr_spi_unregister_callback
    \/ SpiAlone /\ SpiByteExchanged
    \/ SpiAlone /\ SPI_STC_vect

I2cLife ==
    \/ I2cAlone /\ I2C_Setup
    \/ I2cAlone /\ \E data \in Buffers(TxBytes) :
                      avr_i2c_master_transmit(80, data, 0)
    \/ I2cAlone /\ I2C_Poll
    \/ I2cAlone /\ I2C_Return
    \/ I2cAlone /\ TwiComplete

TimerLife ==
    \/ TimerAlone /\ \E mode \in TimerModes :
                        avr_timer_init(FALSE, mode, 1000)
    \/ TimerAlone /\ avr_timer_deinit
    \/ TimerAlone /\ \E src \in TimerSources, handler \in TimerHandlers,
                        user_data \in UserData :
                        avr_timer_register_callback(src[1], src[2], handler,
                                                    user_data)
    \/ TimerAlone /\ \E src \in TimerSources :
                        avr_timer_unregister_callback(src[1], src[2])
    \/ TimerAlone /\ TIMER1_OVF_vect
    \/ TimerAlone /\ TIMER1_COMPA_vect
    \/ TimerAlone /\ TIMER1_COMPB_vect
    \/ TimerAlone /\ TIMER1_CAPT_vect

NextLife ==
    \/ AdcLife
    \/ UartLife
    \/ SpiLife
    \/ I2cLife
    \/ TimerLife
    \/ avr_system_disable_interrupts
    \/ avr_system_enable_interrupts

SpecLife == Init /\ [][NextLife]_vars


(***************************************************************************)
(* Claims about deinit                                                     *)
(***************************************************************************)
AdcSlotsEmpty(handlers) ==
    \A i \in 0..(ADC_CHANNELS - 1) : handlers[i] = EmptySlot

UartSlotsEmpty(callbacks) ==
    callbacks = [rx_handler |-> NULL, rx_user_data |-> NULL,
                 tx_handler |-> NULL, tx_user_data |-> NULL]

TimerSlotsEmpty(callbacks) == \A slot \in TimerSlots : callbacks[slot] = EmptySlot

\* C14: for the ADC, UART, SPI, I2C and Timer drivers, a return of deinit
\* leaves every callback slot of the driver empty and its interrupt enables
\* clear, whatever preceded it; a slot goes from empty to holding a handler
\* only in a register call that returns OK; and a run of an interrupt
\* handler (for I2C, of a master call) while the slots are empty invokes no
\* handler.  So after deinit no handler is invoked until one is registered.
C14_DeinitClearsCallbacks ==
    [][/\ avr_adc_deinit =>
            AdcSlotsEmpty(adc_irq_handlers') /\ "ADIE" \notin adcsra'
       /\ avr_uart_deinit =>
            /\ UartSlotsEmpty(uart_callbacks')
            /\ ucsrb' \cap {"RXCIE0", "TXCIE0", "UDRIE0"} = {}
       /\ avr_spi_deinit =>
            spi_callback' = EmptySlot /\ "SPIE" \notin spcr'
       /\ avr_i2c_deinit =>
            i2c_callback' = EmptySlot /\ "TWIE" \notin twcr'
       /\ avr_timer_deinit =>
            TimerSlotsEmpty(timer_callbacks') /\ timsk' = {}
       \* only a registration fills a slot
       /\ (\E i \in 0..(ADC_CHANNELS - 1) :
              /\ adc_irq_handlers[i].handler = NULL
              /\ adc_irq_handlers'[i].handler # NULL)
            => /\ adc_call'.op = "register_callback"
               /\ adc_call'.ret = EER_HAL_OK
       /\ (uart_callbacks.rx_handler = NULL
             /\ uart_callbacks'.rx_handler # NULL)
            => \E u \in UserData : avr_uart_register_rx_callback("h1", u)
       /\ (uart_callbacks.tx_handler = NULL
             /\ uart_callbacks'.tx_handler # NULL)
            => \E u \in UserData : avr_uart_register_tx_callback("h1", u)
       /\ (spi_callback.handler = NULL /\ spi_callback'.handler # NULL)
            => /\ spi_last'.op = "register_callback"
               /\ spi_last'.ret = EER_HAL_OK
       /\ (i2c_callback.handler = NULL /\ i2c_callback'.handler # NULL)
            => \E h \in I2cHandlers, u \in UserData :
                  avr_i2c_register_callback(h, u)
       /\ (\E slot \in TimerSlots :
              /\ timer_callbacks[slot].handler = NULL
              /\ timer_callbacks'[slot].handler # NULL)
            => /\ timer_last'.op = "register_callback"
               /\ timer_last'.ret = EER_HAL_OK
       \* with empty slots nothing is invoked
       /\ (ADC_vect /\ AdcSlotsEmpty(adc_irq_handlers)) => adc_events' = <<>>
       /\ ((USART_RX_vect \/ USART_TX_vect)
             /\ UartSlotsEmpty(uart_callbacks)) => uart_events' = <<>>
       /\ (SPI_STC_vect /\ spi_callback = EmptySlot) => spi_events' = <<>>
       /\ i2c_callback = EmptySlot => Len(i2c_events') <= Len(i2c_events)
       /\ (TIMER1_OVF_vect /\ timer_callbacks["overflow"] = EmptySlot)
            => ~timer_last'.called
       /\ (TIMER1_COMPA_vect /\ timer_callbacks["compare_a"] = EmptySlot)
            => ~timer_last'.called
       /\ (TIMER1_COMPB_vect /\ timer_callbacks["compare_b"] = EmptySlot)
            => ~timer_last'.called
       /\ (TIMER1_CAPT_vect /\ timer_callbacks["capture"] = EmptySlot)
            => ~timer_last'.called]_vars

\* ADC deinit has returned after a registered handler had been invoked by
\* the conversion-complete interrupt: the table is empty, ADIE is clear
C14_Witness ==
    /\ adc_call.op = "deinit"
    /\ adc_call.ret = EER_HAL_OK
    /\ Len(adc_events) = 1
    /\ AdcSlotsEmpty(adc_irq_handlers)
    /\ "ADIE" \notin adcsra


(***************************************************************************)
(* Claims about the ADC driver                                             *)
(***************************************************************************)
\* C15: unregister_callback for a channel 0..7 clears only that channel's
\* slot; when no slot holds a handler after the call the conversion-complete
\* interrupt enable ADIE is clear, and when another channel still holds a
\* handler ADIE is as it was before the call.
C15_UnregisterKeepsSharedEnable ==
    [][\A channel \in AdcChannels \cap (0..(ADC_CHANNELS - 1)) :
         avr_adc_unregister_callback(FALSE, channel) =>
           /\ adc_call'.ret = EER_HAL_OK
           /\ adc_irq_handlers' =
                [adc_irq_handlers EXCEPT ![channel] = EmptySlot]
           /\ IF \E i \in 0..(ADC_CHANNELS - 1) :
                    adc_irq_handlers'[i].handler # NULL
              THEN ("ADIE" \in adcsra') = ("ADIE" \in adcsra)
              ELSE "ADIE" \notin adcsra']_vars

\* unregister_callback(0) has returned while channel 1 keeps its handler:
\* slot 0 is empty and ADIE is still set
C15_Witness ==
    /\ adc_call.op = "unregister_callback"
    /\ adc_call.channel = 0
    /\ adc_call.ret = EER_HAL_OK
    /\ adc_irq_handlers[0] = EmptySlot
    /\ adc_irq_handlers[1].handler # NULL
    /\ "ADIE" \in adcsra

\* C16: start_conversion, read, register_callback and unregister_callback
\* with a channel number outside 0..7 return INVALID_PARAM and leave the
\* multiplexer register, the callback table and the interrupt enable as
\* they were.
C16_RejectsChannelOutOfRange ==
    [][\A channel \in AdcChannels \ (0..(ADC_CHANNELS - 1)) :
         /\ (\/ avr_adc_start_conversion(FALSE, channel)
             \/ avr_adc_unregister_callback(FALSE, channel)
             \/ \E handler \in AdcHandlers, user_data \in UserData :
                   avr_adc_register_callback(FALSE, channel, handler,
                                             user_data))
              => /\ adc_call'.ret = EER_HAL_INVALID_PARAM
                 /\ UNCHANGED <<admux, adc_irq_handlers>>
                 /\ ("ADIE" \in adcsra') = ("ADIE" \in adcsra)
         /\ avr_adc_read(FALSE, channel)
              => /\ adc_call'.pc = "idle"
                 /\ adc_call'.ret = EER_HAL_INVALID_PARAM
                 /\ UNCHANGED <<admux, adc_irq_handlers>>
                 /\ ("ADIE" \in adcsra') = ("ADIE" \in adcsra)]_vars


\* C17 as stated: read first rewrites the multiplexer bits to the requested
\* channel (0..7), then starts a conversion if and only if none is in
\* flight, and at its return the conversion-in-progress flag ADSC is clear
\* and the value handed back is the data register's.
C17_ReadReturnsWithFlagClear ==
    [][/\ \A channel \in AdcChannels \cap (0..(ADC_CHANNELS - 1)) :
            avr_adc_read(FALSE, channel) =>
               /\ admux' = [admux EXCEPT !.mux = channel]
               /\ adcsra' = adcsra
               /\ adc_call'.pc = "start"
       /\ (adc_call.pc = "start" /\ adc_call'.pc = "poll") =>
            /\ "ADSC" \in adcsra'
            /\ (adcsra' # adcsra) = ("ADSC" \notin adcsra)
       /\ (adc_call.pc = "load" /\ adc_call'.pc = "done") =>
            /\ adc_call'.ret = EER_HAL_OK
            /\ adc_call'.value = adc_data
            /\ "ADSC" \notin adcsra']_vars

\* C17 amended: read first rewrites the multiplexer bits to the requested
\* channel (0..7), then starts a conversion if and only if none is in
\* flight, leaves its polling loop only on reading ADSC as clear, and then
\* returns OK with the data register's value; ADSC is clear at the return
\* unless the conversion-complete interrupt is enabled, whose handler may
\* have started the next conversion after the last poll.
C17_ReadPollsUntilFlagClear ==
    [][/\ \A channel \in AdcChannels \cap (0..(ADC_CHANNELS - 1)) :
            avr_adc_read(FALSE, channel) =>
               /\ admux' = [admux EXCEPT !.mux = channel]
               /\ adcsra' = adcsra
               /\ adc_call'.pc = "start"
       /\ (adc_call.pc = "start" /\ adc_call'.pc = "poll") =>
            /\ "ADSC" \in adcsra'
            /\ (adcsra' # adcsra) = ("ADSC" \notin adcsra)
       /\ (adc_call.pc = "poll" /\ adc_call'.pc = "load") =>
            "ADSC" \notin adcsra
       /\ (adc_call.pc = "load" /\ adc_call'.pc = "done") =>
            /\ adc_call'.ret = EER_HAL_OK
            /\ adc_call'.value = adc_data
            /\ "ADSC" \in adcsra' => ("ADIE" \in adcsra' /\ sreg_I)]_vars

\* read has started a conversion itself and returned its result 1023 while
\* ADSC is set again: the interrupt handler ran after the last poll
C17_Witness ==
    /\ adc_call.op = "read"
    /\ adc_call.pc = "done"
    /\ adc_call.ret = EER_HAL_OK
    /\ adc_call.started
    /\ adc_call.value = 1023
    /\ "ADSC" \in adcsra


(***************************************************************************)
(* Claims about the I2C master calls                                       *)
(***************************************************************************)
\* the bus phases of a transfer of tx to, and of rx_size bytes from, a
\* 7-bit address
WriteThenReadPhases(address, tx, rx_size) ==
    <<Ph("START", 0), Ph("SLA_W", 2 * address)>>
      \o [k \in 1..Len(tx) |-> Ph("DATA_TX", tx[k])]
      \o <<Ph("RESTART", 0), Ph("SLA_R", 2 * address + 1)>>
      \o [k \in 1..rx_size |-> Ph("DATA_RX", IF k < rx_size THEN 1 ELSE 0)]
      \o <<Ph("STOP", 0)>>

\* C18: when master_transmit_receive returns OK the phases it issued are, in
\* this order, START, address with write bit, the tx bytes in index order,
\* repeated START, address with read bit, rx_size receive steps of which
\* all but the last acknowledge, STOP; and every phase after the START,
\* other than a STOP, is issued in a step that found the previous phase
\* complete (TWINT set) with the status that phase expects.
C18_TransmitReceivePhases ==
    [][/\ (/\ i2c_call'.pc = "done"
           /\ i2c_call'.op = "master_transmit_receive"
           /\ i2c_call'.ret = EER_HAL_OK)
            => i2c_bus' = WriteThenReadPhases(i2c_call'.address,
                                              i2c_call'.tx.bytes,
                                              i2c_call'.rx_size)
       /\ (/\ i2c_call.op = "master_transmit_receive"
           /\ Len(i2c_bus) > 0
           /\ Len(i2c_bus') = Len(i2c_bus) + 1
           /\ i2c_bus'[Len(i2c_bus')].kind # "STOP")
            => /\ "TWINT" \in twcr
               /\ twsr = TwiExpected(i2c_bus[Len(i2c_bus)].kind,
                                     i2c_bus[Len(i2c_bus)].val = 1)]_vars

\* master_transmit_receive of MaxLen bytes each way has returned OK
C18_Witness ==
    /\ i2c_call.pc = "done"
    /\ i2c_call.op = "master_transmit_receive"
    /\ i2c_call.ret = EER_HAL_OK
    /\ i2c_call.tx_size = MaxLen
    /\ i2c_call.rx_size = MaxLen
    /\ Len(i2c_rx) = MaxLen


(***************************************************************************)
(* I2C bus scan                                                            *)
(***************************************************************************)
ScanDevices == {8, 119, 120}     \* addresses a device may sit at

ScanMaxDevices == {0, 1, 2}      \* uint8_t max_devices

SCAN_TIMEOUT == 10               \* i2c_start(10), i2c_wait_for_completion(10)

\* if (addr < 8 || (addr >= 0x78 && addr <= 0x7F)) continue;
scan_reserved(addr) == addr < 8 \/ (addr >= 120 /\ addr <= 127)

\* (mutant) the loop goes on although the array is full
scan_goes_on_when_full(addr, count, max_devices) == addr < 128

\* (mutant) the loop stops one recorded address too late
scan_goes_on_one_more(addr, count, max_devices) ==
    addr < 128 /\ count <= max_devices

\* addr < 128 && count < max_devices
scan_goes_on(addr, count, max_devices) == addr < 128 /\ count < max_devices

\* the loop from its test at `addr` up to the next address it probes:
\* reserved addresses are passed over; 128 when the loop ends
RECURSIVE scan_next_addr(_, _, _)
scan_next_addr(addr, count, max_devices) ==
    IF ~scan_goes_on(addr, count, max_devices) THEN 128
    ELSE IF scan_reserved(addr)
         THEN scan_next_addr(addr + 1, count, max_devices)
         ELSE addr

\* the loop test at `addr` and what follows it: the START of the next probe,
\* or *found_devices = count; return EER_HAL_OK.  The bus history is kept
\* for the probe in progress only.
scan_loop(sc, addr) ==
    LET next == scan_next_addr(addr, sc.count, sc.max_devices) IN
    IF next < 128
    THEN /\ i2c_start(<<>>)
         /\ i2c_scan' = [sc EXCEPT !.pc = "wait", !.phase = "START",
                                   !.addr = next, !.starts = @ + 1]
    ELSE /\ i2c_scan' = [sc EXCEPT !.pc = "done", !.addr = 128,
                                   !.found_devices = sc.count,
                                   !.ret = EER_HAL_OK]
         /\ i2c_bus' = <<>>
         /\ UNCHANGED <<twcr, twdr>>

\* avr_i2c_scan, called with the devices `present` on the bus
avr_i2c_scan(has_devices, has_found, max_devices, present) ==
    /\ i2c_call.pc = "idle"
    /\ i2c_scan.pc = "idle"
    /\ i2c_present' = present
    /\ IF ~has_devices \/ ~has_found \/ max_devices = 0
       THEN /\ i2c_scan' = [ScanIdle EXCEPT !.pc = "done",
                                            !.max_devices = max_devices,
                                            !.ret = EER_HAL_INVALID_PARAM]
            /\ UNCHANGED <<twcr, twdr, i2c_bus>>
       ELSE scan_loop([ScanIdle EXCEPT !.max_devices = max_devices], 0)
    /\ UNCHANGED <<twsr, i2c_callback, i2c_config, i2c_call, i2c_rx,
                   i2c_events, i2c_mis>>
    /\ UNCHANGED notScan

\* one turn of the wait loop of the probe in progress and, when the wait
\* ends, the rest of the loop body up to the next wait or to i2c_stop()
Scan_Poll ==
    /\ i2c_scan.pc = "wait"
    /\ IF "TWINT" \notin twcr
       THEN IF poll_timed_out(SCAN_TIMEOUT)
            THEN /\ i2c_stop(i2c_bus)
                 /\ i2c_scan' = [i2c_scan EXCEPT !.pc = "next"]
            ELSE UNCHANGED <<twcr, twdr, i2c_bus, i2c_scan>>
       ELSE IF i2c_scan.phase = "START"
            THEN IF twsr # I2C_START_TRANSMITTED
                 THEN /\ i2c_stop(i2c_bus)
                      /\ i2c_scan' = [i2c_scan EXCEPT !.pc = "next"]
                 ELSE \* *i2c0.twdr = (addr << 1) | 0; TWCR = TWINT | TWEN
                      /\ i2c_send_address(i2c_scan.addr, FALSE, i2c_bus)
                      /\ i2c_scan' = [i2c_scan EXCEPT !.phase = "SLA_W"]
            ELSE \* if ((TWSR & 0xF8) == I2C_SLA_W_ACK) devices[count++] = addr;
                 /\ i2c_stop(i2c_bus)
                 /\ i2c_scan' =
                      IF twsr = I2C_SLA_W_ACK
                      THEN [i2c_scan EXCEPT
                              !.pc = "next",
                              !.devices = Append(@, i2c_scan.addr),
                              !.count = (@ + 1) % 256]
                      ELSE [i2c_scan EXCEPT !.pc = "next"]
    /\ UNCHANGED <<twsr, i2c_callback, i2c_config, i2c_call, i2c_rx,
                   i2c_events, i2c_mis, i2c_present>>
    /\ UNCHANGED notScan

\* after i2c_stop(): addr++ and the loop test
Scan_Next ==
    /\ i2c_scan.pc = "next"
    /\ scan_loop(i2c_scan, i2c_scan.addr + 1)
    /\ UNCHANGED <<twsr, i2c_callback, i2c_config, i2c_call, i2c_rx,
                   i2c_events, i2c_mis, i2c_present>>
    /\ UNCHANGED notScan

\* scan has returned; the foreground program goes on
Scan_Return ==
    /\ i2c_scan.pc = "done"
    /\ i2c_scan' = ScanIdle
    /\ i2c_present' = {}
    /\ UNCHANGED <<i2cVars, notScan>>

\* The TWI hardware ends the phase of the probe: a START is sent or fails;
\* the address is acknowledged exactly when a device sits at it.
TwiScanComplete ==
    /\ i2c_scan.pc = "wait"
    /\ "TWINT" \notin twcr
    /\ twcr' = twcr \cup {"TWINT"}
    /\ \E code \in (IF i2c_scan.phase = "START"
                    THEN {I2C_START_TRANSMITTED, I2C_ARBITRATION_LOST}
                    ELSE IF i2c_scan.addr \in i2c_present
                         THEN {I2C_SLA_W_ACK} ELSE {I2C_SLA_W_NACK}) :
          /\ twsr' = code
          /\ i2c_scan' = [i2c_scan EXCEPT
                            !.acked = IF code = I2C_SLA_W_ACK
                                      THEN Append(@, i2c_scan.addr) ELSE @]
    /\ UNCHANGED <<twdr, i2c_callback, i2c_config, i2c_call, i2c_rx, i2c_bus,
                   i2c_events, i2c_mis, i2c_present>>
    /\ UNCHANGED notScan

Scan_Call ==
    \E has_devices \in BOOLEAN, has_found \in BOOLEAN,
       max_devices \in ScanMaxDevices, present \in SUBSET ScanDevices :
       avr_i2c_scan(has_devices, has_found, max_devices, present)

NextScan ==
    \/ Scan_Call
    \/ Scan_Poll
    \/ Scan_Next
    \/ Scan_Return
    \/ TwiScanComplete

SpecScan == Init /\ [][NextScan]_vars


\* the addresses scan may probe: 8..0x77
ScanRange == 8..119

\* C19 as stated: when scan returns OK, found_devices and the devices array
\* hold exactly the addresses in 8..0x77 at which a device acknowledges, in
\* ascending order; an address phase is only ever issued for an address in
\* 8..0x77; and the probe of an address ends with a STOP.
C19_ScanReportsAllAcknowledging ==
    /\ (i2c_scan.pc = "done" /\ i2c_scan.ret = EER_HAL_OK) =>
         /\ i2c_scan.found_devices = Len(i2c_scan.devices)
         /\ {i2c_scan.devices[k] : k \in DOMAIN i2c_scan.devices}
              = i2c_present \cap ScanRange
         /\ \A j, k \in DOMAIN i2c_scan.devices :
               j < k => i2c_scan.devices[j] < i2c_scan.devices[k]
    /\ \A k \in DOMAIN i2c_bus :
         (i2c_scan.pc # "idle" /\ i2c_bus[k].kind = "SLA_W") =>
            /\ i2c_scan.addr \in ScanRange
            /\ i2c_bus[k].val = 2 * i2c_scan.addr
    /\ i2c_scan.pc = "next" =>
         /\ i2c_bus[1].kind = "START"
         /\ i2c_bus[Len(i2c_bus)].kind = "STOP"

\* C19 amended: when scan returns OK, found_devices and the devices array
\* hold, in ascending order, exactly the addresses whose write-address
\* phase was acknowledged during the scan, each in 8..0x77 with a device at
\* it; the scan asks for a START for each of the 112 addresses of 8..0x77 in
\* turn unless it stops because max_devices addresses are recorded, so
\* devices beyond the max_devices-th are not reported; an address phase is
\* only ever issued for an address in 8..0x77; and the probe of an address
\* ends with a STOP.
C19_ScanReportsAcknowledged ==
    /\ (i2c_scan.pc = "done" /\ i2c_scan.ret = EER_HAL_OK) =>
         /\ i2c_scan.found_devices = Len(i2c_scan.devices)
         /\ i2c_scan.devices = i2c_scan.acked
         /\ \A k \in DOMAIN i2c_scan.devices :
               i2c_scan.devices[k] \in i2c_present \cap ScanRange
         /\ \A j, k \in DOMAIN i2c_scan.devices :
               j < k => i2c_scan.devices[j] < i2c_scan.devices[k]
         /\ IF Len(i2c_scan.devices) < i2c_scan.max_devices
            THEN i2c_scan.starts = Cardinality(ScanRange)
            ELSE Len(i2c_scan.devices) = i2c_scan.max_devices
    /\ \A k \in DOMAIN i2c_bus :
         (i2c_scan.pc # "idle" /\ i2c_bus[k].kind = "SLA_W") =>
            /\ i2c_scan.addr \in ScanRange
            /\ i2c_bus[k].val = 2 * i2c_scan.addr
    /\ i2c_scan.pc = "next" =>
         /\ i2c_bus[1].kind = "START"
         /\ i2c_bus[Len(i2c_bus)].kind = "STOP"

\* scan with room for one address has returned OK on a bus with devices at
\* 8, 0x77 and 0x78: it reports 8 alone
C19_Witness ==
    /\ i2c_scan.pc = "done"
    /\ i2c_scan.ret = EER_HAL_OK
    /\ i2c_scan.max_devices = 1
    /\ i2c_present = {8, 119, 120}
    /\ i2c_scan.devices = <<8>>
    /\ i2c_scan.found_devices = 1


\* C20: with the driver initialised for 10-bit addressing, a master call
\* with valid parameters returns NOT_SUPPORTED, the last thing it asked of
\* the bus being a STOP, and no call ever issues an address phase (writes
\* an address byte to TWDR).
C20_TenBitNotSupported ==
    i2c_config.addr_mode = "EER_I2C_ADDR_10BIT" =>
       /\ \A k \in DOMAIN i2c_bus : i2c_bus[k].kind \notin {"SLA_W", "SLA_R"}
       /\ (i2c_call.pc = "done" /\ i2c_call.ret # EER_HAL_INVALID_PARAM) =>
            /\ i2c_call.ret = EER_HAL_NOT_SUPPORTED
            /\ i2c_bus[Len(i2c_bus)].kind = "STOP"

\* ======================================================================
\* UART blocking transfers (src/platforms/avr/uart.c)
\* ======================================================================

\* the bytes a transmit call is given
UartTxBuffers == Buffers(TxBytes)

\* the sizes a call is given
UartSizes == 0..MaxLen

\* the caller's receive buffers: NULL, or size bytes that the call fills
UartRxBuffers == {NullPtr, Buf(<<>>)}

UartIoFree == uart_call.pc = "idle"

\* (mutant) the polling loop never waits for the flag
uart_flag_ready_always(reg, flag) == TRUE

\* the negated condition of while (!(*uart0.ucsra & (1 << flag)))
uart_flag_ready(reg, flag) == flag \in reg

\* static eer_hal_status_t avr_uart_transmit(uint8_t* data, size_t size,
\*                                           uint32_t timeout)
avr_uart_transmit(data, size, timeout) ==
    /\ UartIoFree
    /\ IF data.null \/ size = 0
       THEN uart_call' = [UartIdleCall EXCEPT !.op = "transmit",
                             !.pc = "done", !.data = data, !.size = size,
                             !.timeout = timeout,
                             !.ret = EER_HAL_INVALID_PARAM]
       ELSE uart_call' = [UartIdleCall EXCEPT !.op = "transmit",
                             !.pc = "poll", !.data = data, !.size = size,
                             !.timeout = timeout]
    /\ uart_tx' = <<>>
    /\ uart_rx' = <<>>
    /\ uart_arrived' = <<>>
    /\ UNCHANGED <<uartVars, notUartIo>>

\* static eer_hal_status_t avr_uart_receive(uint8_t* data, size_t size,
\*                                          uint32_t timeout)
avr_uart_receive(data, size, timeout) ==
    /\ UartIoFree
    /\ IF data.null \/ size = 0
       THEN uart_call' = [UartIdleCall EXCEPT !.op = "receive",
                             !.pc = "done", !.data = data, !.size = size,
                             !.timeout = timeout,
                             !.ret = EER_HAL_INVALID_PARAM]
       ELSE uart_call' = [UartIdleCall EXCEPT !.op = "receive",
                             !.pc = "poll", !.data = data, !.size = size,
                             !.timeout = timeout]
    /\ uart_tx' = <<>>
    /\ uart_rx' = <<>>
    \* a byte that waits in UDR0 when the call begins is the first it is due
    /\ uart_arrived' = IF "RXC0" \in ucsra THEN <<udr>> ELSE <<>>
    /\ UNCHANGED <<uartVars, notUartIo>>

\* the flag the loop of the call polls
uart_poll_flag(op) == IF op = "transmit" THEN "UDRE0" ELSE "RXC0"

\* One evaluation of the polling loop that leaves it:
\*   while (!(*uart0.ucsra & (1 << flag))) {
\*       if (timeout > 0) { current_time = 0;
\*           if ((current_time - start_time) >= timeout) return TIMEOUT; } }
\* An evaluation that finds the flag clear and no time-out spins.
Uart_Poll ==
    /\ uart_call.pc = "poll"
    /\ IF uart_flag_ready(ucsra, uart_poll_flag(uart_call.op))
       THEN uart_call' = [uart_call EXCEPT
                             !.pc = "access",
                             !.observed =
                                 uart_poll_flag(uart_call.op) \in ucsra]
       ELSE /\ poll_timed_out(uart_call.timeout)
            /\ uart_call' = [uart_call EXCEPT !.pc = "done",
                                              !.ret = EER_HAL_TIMEOUT]
    /\ UNCHANGED <<uart_tx, uart_rx, uart_arrived, uartVars, notUartIo>>

\* the call after the access to UDR0 for index i: the next index, or
\* return EER_HAL_OK after the last
uart_after_access(call) ==
    IF call.i + 1 < call.size
    THEN [call EXCEPT !.i = call.i + 1, !.pc = "poll", !.observed = FALSE]
    ELSE [call EXCEPT !.i = call.i + 1, !.pc = "done", !.observed = FALSE,
                      !.ret = EER_HAL_OK]

\* *uart0.udr = data[i];  the byte goes to the transmit buffer, which is
\* full until the transmitter takes it.  data[i] beyond the caller's bytes
\* reads any byte.
Uart_Write ==
    /\ uart_call.pc = "access"
    /\ uart_call.op = "transmit"
    /\ \E b \in (IF uart_call.i + 1 \in DOMAIN uart_call.data.bytes
                 THEN {uart_call.data.bytes[uart_call.i + 1]}
                 ELSE TxBytes) :
          uart_tx' = Append(uart_tx, b)
    /\ ucsra' = ucsra \ {"UDRE0"}
    /\ uart_call' = uart_after_access(uart_call)
    /\ UNCHANGED <<uart_rx, uart_arrived, ucsrb, udr, uart_callbacks,
                   rx_buffer, rx_head, rx_tail, uart_events, notUartIo>>

\* data[i] = *uart0.udr;  reading UDR0 takes the waiting byte and clears
\* RXC0; with no byte waiting the read returns any byte.
Uart_Read ==
    /\ uart_call.pc = "access"
    /\ uart_call.op = "receive"
    /\ \E b \in (IF "RXC0" \in ucsra THEN {udr} ELSE UartRxBytes) :
          uart_rx' = Append(uart_rx, b)
    /\ ucsra' = ucsra \ {"RXC0"}
    /\ udr' = 0
    /\ uart_call' = uart_after_access(uart_call)
    /\ UNCHANGED <<uart_tx, uart_arrived, ucsrb, uart_callbacks, rx_buffer,
                   rx_head, rx_tail, uart_events, notUartIo>>

\* the call has returned; the foreground program goes on
Uart_Return ==
    /\ uart_call.pc = "done"
    /\ uart_call' = UartIdleCall
    /\ UNCHANGED <<uart_tx, uart_rx, uart_arrived, uartVars, notUartIo>>

\* The transmitter has moved the byte from the transmit buffer to the shift
\* register: UDRE0 is set again.
UartDataRegisterEmpty ==
    /\ "UDRE0" \notin ucsra
    /\ ucsra' = ucsra \cup {"UDRE0"}
    /\ UNCHANGED <<ucsrb, udr, uart_callbacks, rx_buffer, rx_head, rx_tail,
                   uart_events, uartIoVars, notUartIo>>

Uart_Call ==
    \E data \in UartTxBuffers, size \in UartSizes, timeout \in Timeouts :
       \/ avr_uart_transmit(data, size, timeout)
       \/ /\ data \in UartRxBuffers
          /\ avr_uart_receive(data, size, timeout)

\* The foreground program initialises the driver, registers and unregisters
\* the receive callback between its blocking calls; the receiver and the
\* receive interrupt run at any time.
NextUartIo ==
    \/ UartIoFree /\ ucsrb = {} /\ avr_uart_init
    \/ UartIoFree /\ rx_head = 0
         /\ \E h \in I2cHandlers, u \in UserData :
               avr_uart_register_rx_callback(h, u)
    \/ UartIoFree /\ avr_uart_unregister_rx_callback
    \/ Uart_Call
    \/ Uart_Poll
    \/ Uart_Write
    \/ Uart_Read
    \/ Uart_Return
    \/ UartDataRegisterEmpty
    \/ rx_head < MaxLifeBytes /\ UartByteArrives
    \/ USART_RX_vect

SpecUartIo == Init /\ [][NextUartIo]_vars

\* the first n bytes of a sequence
UartPrefix(seq, n) == [k \in 1..n |-> seq[k]]

SPI_DUMMY == 255

SpiTxBuffers == Buffers(TxBytes)
SpiRxBuffers == {NullPtr, Buf(<<>>)}
SpiSizes == 0..MaxLen

SpiIoFree == spi_call.pc = "idle" /\ ForegroundFree

\* (mutant) the dummy byte is 0x00
spi_tx_byte_or_zero(tx_data, i, b) == IF ~tx_data.null THEN b ELSE 0

\* if (tx_data != NULL) *spi0.spdr = tx_data[i]; else *spi0.spdr = 0xFF;
\* b is what tx_data[i] reads
spi_tx_byte(tx_data, i, b) == IF ~tx_data.null THEN b ELSE SPI_DUMMY

\* static eer_hal_status_t avr_spi_transfer(const uint8_t* tx_data,
\*                     uint8_t* rx_data, uint16_t size, uint32_t timeout)
\* op names the entry of the handler structure the call came through
spi_transfer_enter(op, tx_data, rx_data, size, timeout) ==
    /\ SpiIoFree
    /\ IF size = 0 \/ (tx_data.null /\ rx_data.null)
       THEN spi_call' = [SpiIdleCall EXCEPT !.op = op, !.pc = "done",
                            !.tx_data = tx_data, !.rx_data = rx_data,
                            !.size = size, !.timeout = timeout,
                            !.ret = EER_HAL_INVALID_PARAM]
       ELSE spi_call' = [SpiIdleCall EXCEPT !.op = op, !.pc = "write",
                            !.tx_data = tx_data, !.rx_data = rx_data,
                            !.size = size, !.timeout = timeout]
    /\ spi_sent' = <<>>
    /\ spi_stored' = <<>>
    /\ UNCHANGED <<spdr, spi_shift, spiVars, notSpiIo>>

avr_spi_transfer(tx_data, rx_data, size, timeout) ==
    spi_transfer_enter("transfer", tx_data, rx_data, size, timeout)

\* return avr_spi_transfer(data, NULL, size, timeout);
avr_spi_transmit(data, size, timeout) ==
    spi_transfer_enter("transmit", data, NullPtr, size, timeout)

\* return avr_spi_transfer(NULL, data, size, timeout);
avr_spi_receive(data, size, timeout) ==
    spi_transfer_enter("receive", NullPtr, data, size, timeout)

\* An access to SPDR after SPSR was read with SPIF set clears SPIF.
spsr_after_access == IF spi_shift.seen THEN spsr \ {"SPIF"} ELSE spsr

\* *spi0.spdr = ...;  an enabled master starts to shift the byte out
Spi_Write ==
    /\ spi_call.pc = "write"
    /\ \E b \in (IF spi_call.i + 1 \in DOMAIN spi_call.tx_data.bytes
                 THEN {spi_call.tx_data.bytes[spi_call.i + 1]}
                 ELSE TxBytes) :
          spi_sent' = Append(spi_sent,
                             spi_tx_byte(spi_call.tx_data, spi_call.i, b))
    /\ spsr' = spsr_after_access
    /\ spi_shift' = [busy |-> {"SPE", "MSTR"} \subseteq spcr, seen |-> FALSE]
    /\ spi_call' = [spi_call EXCEPT !.pc = "poll", !.observed = FALSE]
    /\ UNCHANGED <<spdr, spi_stored, spcr, spi_callback, spi_last,
                   spi_events, notSpiIo>>

\* One evaluation of the polling loop that leaves it:
\*   while (!(*spi0.spsr & (1 << SPIF))) { if (timeout > 0) { ... } }
Spi_Poll ==
    /\ spi_call.pc = "poll"
    /\ IF "SPIF" \in spsr
       THEN /\ spi_call' = [spi_call EXCEPT !.pc = "read",
                                            !.observed = TRUE]
            /\ spi_shift' = [spi_shift EXCEPT !.seen = TRUE]
       ELSE /\ poll_timed_out(spi_call.timeout)
            /\ spi_call' = [spi_call EXCEPT !.pc = "done",
                                            !.ret = EER_HAL_TIMEOUT]
            /\ UNCHANGED spi_shift
    /\ UNCHANGED <<spdr, spi_sent, spi_stored, spiVars, notSpiIo>>

\* if (rx_data != NULL) rx_data[i] = *spi0.spdr; else (void)*spi0.spdr;
Spi_Read ==
    /\ spi_call.pc = "read"
    /\ spi_stored' = IF ~spi_call.rx_data.null
                     THEN Append(spi_stored, spdr) ELSE spi_stored
    /\ spsr' = spsr_after_access
    /\ spi_shift' = [spi_shift EXCEPT !.seen = FALSE]
    /\ spi_call' = [spi_call EXCEPT
                      !.i = spi_call.i + 1,
                      !.reads = spi_call.reads + 1,
                      !.pc = IF spi_call.i + 1 < spi_call.size
                             THEN "write" ELSE "finish"]
    /\ UNCHANGED <<spdr, spi_sent, spcr, spi_callback, spi_last, spi_events,
                   notSpiIo>>

\* if (spi_callback.handler != NULL) spi_callback.handler(&event);
\* return EER_HAL_OK;
Spi_Finish ==
    /\ spi_call.pc = "finish"
    /\ spi_events' =
         IF spi_callback.handler # NULL
         THEN <<[handler |-> spi_callback.handler,
                 tx_data |-> IF spi_call.tx_data.null THEN NULL ELSE "tx_data",
                 rx_data |-> IF spi_call.rx_data.null THEN NULL ELSE "rx_data",
                 size |-> spi_call.size,
                 user_data |-> spi_callback.user_data]>>
         ELSE spi_events
    /\ spi_call' = [spi_call EXCEPT !.pc = "done", !.ret = EER_HAL_OK]
    /\ UNCHANGED <<spdr, spi_shift, spi_sent, spi_stored, spcr, spsr,
                   spi_callback, spi_last, notSpiIo>>

\* the call has returned; the foreground program goes on
Spi_Return ==
    /\ spi_call.pc = "done"
    /\ spi_call' = SpiIdleCall
    /\ UNCHANGED <<spdr, spi_shift, spi_sent, spi_stored, spiVars, notSpiIo>>

\* The shift register has exchanged the byte with the slave: the byte
\* shifted in is in SPDR and SPIF is set.
SpiTransferDone ==
    /\ spi_shift.busy
    /\ \E b \in RxBytes : spdr' = b
    /\ spsr' = spsr \cup {"SPIF"}
    /\ spi_shift' = [busy |-> FALSE, seen |-> FALSE]
    /\ UNCHANGED <<spi_call, spi_sent, spi_stored, spcr, spi_callback,
                   spi_last, spi_events, notSpiIo>>

Spi_Call ==
    \E tx \in SpiTxBuffers, rx \in SpiRxBuffers, size \in SpiSizes,
       timeout \in Timeouts :
       \/ avr_spi_transfer(tx, rx, size, timeout)
       \/ rx.null /\ avr_spi_transmit(tx, size, timeout)
       \/ tx.null /\ avr_spi_receive(rx, size, timeout)

NextSpiIo ==
    \/ SpiIoFree /\ spcr = {}
         /\ \E master \in BOOLEAN : avr_spi_init(FALSE, master, "EER_SPI_MODE_0")
    \/ SpiIoFree /\ spi_callback = EmptySlot
         /\ \E h \in I2cHandlers, u \in UserData :
               avr_spi_register_callback(h, u)
    \/ SpiIoFree /\ avr_system_enable_interrupts
    \/ Spi_Call
    \/ Spi_Write
    \/ Spi_Poll
    \/ Spi_Read
    \/ Spi_Finish
    \/ Spi_Return
    \/ SpiTransferDone
    \/ SPI_STC_vect

SpecSpiIo == Init /\ [][NextSpiIo]_vars

\* the bytes transfer writes to SPDR for the first n indexes
SpiExpectedSent(call, n) ==
    [k \in 1..n |-> IF call.tx_data.null THEN SPI_DUMMY
                    ELSE call.tx_data.bytes[k]]

\* C22: transfer writes tx[i] (0xFF when tx is NULL) to SPDR for each index
\* in order, leaves the polling loop only on reading SPIF as set, and then
\* reads SPDR, storing the byte in rx[i] unless rx is NULL.  With rx NULL
\* nothing is stored; transmit and receive are transfer with the other side
\* NULL; size 0 or both buffers NULL returns EER_HAL_INVALID_PARAM with no
\* access to SPDR.
C22_TransferPerByte ==
    /\ spi_call.pc = "read" => spi_call.observed
    /\ (spi_call.pc \in {"write", "poll", "read", "finish"}
          \/ spi_call.ret \in {EER_HAL_OK, EER_HAL_TIMEOUT})
          => /\ spi_call.reads = spi_call.i
             /\ Len(spi_sent) = IF spi_call.pc \in {"poll", "read"}
                                THEN spi_call.i + 1 ELSE spi_call.i
             /\ spi_call.size <= Len(spi_call.tx_data.bytes)
                  \/ spi_call.tx_data.null
                  => spi_sent = SpiExpectedSent(spi_call, Len(spi_sent))
             /\ Len(spi_stored) = IF spi_call.rx_data.null THEN 0
                                  ELSE spi_call.i
    /\ spi_call.ret = EER_HAL_OK
          => Len(spi_sent) = spi_call.size /\ spi_call.reads = spi_call.size
    /\ spi_call.op = "transmit" => spi_call.rx_data.null
    /\ spi_call.op = "receive" => spi_call.tx_data.null
    /\ spi_call.ret = EER_HAL_INVALID_PARAM
          <=> /\ spi_call.pc = "done"
              /\ spi_call.size = 0
                   \/ (spi_call.tx_data.null /\ spi_call.rx_data.null)
    /\ spi_call.ret = EER_HAL_INVALID_PARAM
          => spi_sent = <<>> /\ spi_call.reads = 0 /\ spi_stored = <<>>

\* a receive of two bytes has returned OK: two dummy bytes went out and two
\* bytes were stored
C22_Witness ==
    /\ spi_call.op = "receive"
    /\ spi_call.ret = EER_HAL_OK
    /\ spi_call.size = 2
    /\ spi_sent = <<SPI_DUMMY, SPI_DUMMY>>
    /\ Len(spi_stored) = 2

\* ======================================================================
\* GPIO (src/platforms/avr/gpio.c, include/macros.h)
\* ======================================================================

\* the pins the calls name: bits of port B (eer_hal_pin(B, 5), (B, 4))
GpioPins == {4, 5}

GpioModes == {"EER_GPIO_MODE_INPUT", "EER_GPIO_MODE_INPUT_PULLUP",
              "EER_GPIO_MODE_OUTPUT", "EER_GPIO_MODE_ANALOG"}

GpioTriggers == {"EER_GPIO_TRIGGER_NONE", "EER_GPIO_TRIGGER_FALLING"}

\* #define bit_set(reg, bit)    ((reg) |= (1 << (bit)))
bit_set(reg, b) == reg \cup {b}

\* (mutant) the whole register is cleared
bit_clear_all(reg, b) == {}

\* #define bit_clear(reg, bit)  ((reg) &= ~(1 << (bit)))
bit_clear(reg, b) == reg \ {b}

\* #define bit_get(reg, bit)    (((reg) >> (bit)) & 0x01)
bit_get(reg, b) == b \in reg

\* (mutant) the bit is set, not flipped
bit_toggle_sets(reg, b) == reg \cup {b}

\* #define bit_toggle(reg, bit) ((reg) ^= (1 << (bit)))
bit_toggle(reg, b) == IF b \in reg THEN reg \ {b} ELSE reg \cup {b}

\* the record of one call: its arguments, its return value, the value
\* read (read), and the pin's bit of PORTB before and after the call
GpioCall(op, is_null, pin, ret) ==
    [op |-> op, is_null |-> is_null, pin |-> pin, ret |-> ret,
     mode |-> NULL, trigger |-> NULL, state |-> FALSE,
     before |-> bit_get(gpio_port, pin), out |-> bit_get(gpio_port', pin)]

gpio_returns(call) ==
    gpio_log' = IF Len(gpio_log) < 2 THEN Append(gpio_log, call)
                ELSE <<gpio_log[2], call>>

\* (mutant) every mode is taken as a plain input
gpio_mode_case_input(mode) == "EER_GPIO_MODE_INPUT"

\* switch (config->mode): the case taken
gpio_mode_case(mode) ==
    IF mode \in {"EER_GPIO_MODE_INPUT", "EER_GPIO_MODE_INPUT_PULLUP",
                 "EER_GPIO_MODE_OUTPUT"}
    THEN mode ELSE "default"

avr_gpio_configure(is_null, pin, mode, trigger) ==
    /\ IF is_null
       THEN /\ UNCHANGED <<gpio_ddr, gpio_port>>
            /\ gpio_returns([GpioCall("configure", is_null, pin,
                                      EER_HAL_INVALID_PARAM)
                               EXCEPT !.mode = mode, !.trigger = trigger])
       ELSE LET c == gpio_mode_case(mode) IN
            /\ CASE c = "EER_GPIO_MODE_INPUT" ->
                      /\ gpio_ddr' = bit_clear(gpio_ddr, pin)
                      /\ gpio_port' = bit_clear(gpio_port, pin)
                 [] c = "EER_GPIO_MODE_INPUT_PULLUP" ->
                      /\ gpio_ddr' = bit_clear(gpio_ddr, pin)
                      /\ gpio_port' = bit_set(gpio_port, pin)
                 [] c = "EER_GPIO_MODE_OUTPUT" ->
                      /\ gpio_ddr' = bit_set(gpio_ddr, pin)
                      /\ gpio_port' = gpio_port
                 [] OTHER -> UNCHANGED <<gpio_ddr, gpio_port>>
            /\ gpio_returns([GpioCall("configure", is_null, pin,
                                IF c = "default" THEN EER_HAL_NOT_SUPPORTED
                                ELSE IF trigger # "EER_GPIO_TRIGGER_NONE"
                                THEN EER_HAL_NOT_SUPPORTED
                                ELSE EER_HAL_OK)
                               EXCEPT !.mode = mode, !.trigger = trigger])
    /\ UNCHANGED <<gpio_irq_handlers, notGPIO>>

avr_gpio_write(is_null, pin, state) ==
    /\ IF is_null
       THEN /\ UNCHANGED gpio_port
            /\ gpio_returns([GpioCall("write", is_null, pin,
                                      EER_HAL_INVALID_PARAM)
                               EXCEPT !.state = state])
       ELSE /\ gpio_port' = IF state THEN bit_set(gpio_port, pin)
                            ELSE bit_clear(gpio_port, pin)
            /\ gpio_returns([GpioCall("write", is_null, pin, EER_HAL_OK)
                               EXCEPT !.state = state])
    /\ UNCHANGED <<gpio_ddr, gpio_irq_handlers, notGPIO>>

\* PINB as read: an output pin reads the bit of PORTB, an input pin the
\* level applied to it
GpioPinLevels(pin) ==
    IF bit_get(gpio_ddr, pin) THEN {bit_get(gpio_port, pin)} ELSE BOOLEAN

avr_gpio_read(is_null, pin) ==
    /\ UNCHANGED <<gpio_ddr, gpio_port, gpio_irq_handlers, notGPIO>>
    /\ IF is_null
       THEN gpio_returns(GpioCall("read", is_null, pin,
                                  EER_HAL_INVALID_PARAM))
       ELSE \E level \in GpioPinLevels(pin) :
               gpio_returns([GpioCall("read", is_null, pin, EER_HAL_OK)
                               EXCEPT !.state = level])

avr_gpio_toggle(is_null, pin) ==
    /\ IF is_null
       THEN /\ UNCHANGED gpio_port
            /\ gpio_returns(GpioCall("toggle", is_null, pin,
                                     EER_HAL_INVALID_PARAM))
       ELSE /\ gpio_port' = bit_toggle(gpio_port, pin)
            /\ gpio_returns(GpioCall("toggle", is_null, pin, EER_HAL_OK))
    /\ UNCHANGED <<gpio_ddr, gpio_irq_handlers, notGPIO>>

GpioIrqOps == {"register_irq", "unregister_irq", "enable_irq", "disable_irq"}

\* avr_gpio_register_irq, avr_gpio_unregister_irq, avr_gpio_enable_irq,
\* avr_gpio_disable_irq: each is the single statement
\* return EER_HAL_NOT_SUPPORTED;
avr_gpio_irq_call(op, is_null, pin) ==
    /\ UNCHANGED <<gpio_ddr, gpio_port, gpio_irq_handlers, notGPIO>>
    /\ gpio_returns(GpioCall(op, is_null, pin, EER_HAL_NOT_SUPPORTED))

\* a call with a NULL pin names no pin: the record keeps the first one
NextGPIO ==
    \E is_null \in BOOLEAN :
    \E pin \in (IF is_null THEN {4} ELSE GpioPins) :
       \/ \E mode \in GpioModes, trigger \in GpioTriggers :
             avr_gpio_configure(is_null, pin, mode, trigger)
       \/ \E state \in BOOLEAN : avr_gpio_write(is_null, pin, state)
       \/ avr_gpio_read(is_null, pin)
       \/ avr_gpio_toggle(is_null, pin)
       \/ \E op \in GpioIrqOps : avr_gpio_irq_call(op, is_null, pin)

SpecGPIO == Init /\ [][NextGPIO]_vars

\* the latest call
GpioLast == gpio_log[Len(gpio_log)]

GpioSupportedModes == {"EER_GPIO_MODE_INPUT", "EER_GPIO_MODE_INPUT_PULLUP",
                       "EER_GPIO_MODE_OUTPUT"}

\* C23: configure with a pin and a configuration returns
\* EER_HAL_NOT_SUPPORTED for every mode other than INPUT, INPUT_PULLUP and
\* OUTPUT and for every trigger other than TRIGGER_NONE; register_irq,
\* unregister_irq, enable_irq and disable_irq always return
\* EER_HAL_NOT_SUPPORTED, and no slot of gpio_irq_handlers ever holds a
\* handler.
C23_InterruptsNotSupported ==
    /\ \A k \in DOMAIN gpio_irq_handlers : gpio_irq_handlers[k] = EmptySlot
    /\ gpio_log # <<>> =>
         /\ (GpioLast.op = "configure" /\ ~GpioLast.is_null
               /\ (GpioLast.mode \notin GpioSupportedModes
                     \/ GpioLast.trigger # "EER_GPIO_TRIGGER_NONE"))
               => GpioLast.ret = EER_HAL_NOT_SUPPORTED
         /\ GpioLast.op \in GpioIrqOps
               => GpioLast.ret = EER_HAL_NOT_SUPPORTED

\* configure for a falling-edge interrupt was refused, then register_irq
C23_Witness ==
    /\ Len(gpio_log) = 2
    /\ gpio_log[1].op = "configure"
    /\ gpio_log[1].mode = "EER_GPIO_MODE_INPUT_PULLUP"
    /\ gpio_log[1].trigger = "EER_GPIO_TRIGGER_FALLING"
    /\ gpio_log[1].ret = EER_HAL_NOT_SUPPORTED
    /\ gpio_log[2].op = "register_irq"
    /\ gpio_log[2].ret = EER_HAL_NOT_SUPPORTED

\* C24: configure with TRIGGER_NONE returns EER_HAL_OK and leaves the
\* pin's bits as its mode says: INPUT clears the DDR bit and the PORT bit,
\* INPUT_PULLUP clears the DDR bit and sets the PORT bit, OUTPUT sets the
\* DDR bit; no other pin's bit of either register changes.
C24_ConfigureSetsPinBits ==
    [][\A pin \in GpioPins, mode \in GpioSupportedModes :
          avr_gpio_configure(FALSE, pin, mode, "EER_GPIO_TRIGGER_NONE")
          => /\ GpioLast'.ret = EER_HAL_OK
             /\ mode = "EER_GPIO_MODE_INPUT"
                  => pin \notin gpio_ddr' /\ pin \notin gpio_port'
             /\ mode = "EER_GPIO_MODE_INPUT_PULLUP"
                  => pin \notin gpio_ddr' /\ pin \in gpio_port'
             /\ mode = "EER_GPIO_MODE_OUTPUT"
                  => pin \in gpio_ddr' /\ gpio_port' = gpio_port
             /\ gpio_ddr' \ {pin} = gpio_ddr \ {pin}
             /\ gpio_port' \ {pin} = gpio_port \ {pin}]_vars

\* pin 4 was made an input with pull-up while pin 5 is a high output
C24_Witness ==
    /\ gpio_log # <<>>
    /\ GpioLast.op = "configure"
    /\ GpioLast.pin = 4
    /\ GpioLast.mode = "EER_GPIO_MODE_INPUT_PULLUP"
    /\ GpioLast.trigger = "EER_GPIO_TRIGGER_NONE"
    /\ GpioLast.ret = EER_HAL_OK
    /\ gpio_ddr = {5}
    /\ gpio_port = {4, 5}

\* two successive calls on one output pin, neither with a NULL pin
GpioPair(op1, op2) ==
    /\ Len(gpio_log) = 2
    /\ gpio_log[1].op = op1 /\ gpio_log[2].op = op2
    /\ ~gpio_log[1].is_null /\ ~gpio_log[2].is_null
    /\ gpio_log[1].pin = gpio_log[2].pin
    /\ bit_get(gpio_ddr, gpio_log[2].pin)

\* C25: on an output pin, whose PIN bit reads its PORT bit, a read after
\* write(true) gives true and after write(false) gives false; a toggle
\* after write(false) leaves the output high; a second toggle restores the
\* output the first one found; all these calls return EER_HAL_OK.
C25_WriteReadToggle ==
    /\ GpioPair("write", "read")
         => /\ gpio_log[2].state = gpio_log[1].state
            /\ gpio_log[1].ret = EER_HAL_OK /\ gpio_log[2].ret = EER_HAL_OK
    /\ (GpioPair("write", "toggle") /\ ~gpio_log[1].state)
         => /\ gpio_log[2].out /\ bit_get(gpio_port, gpio_log[2].pin)
            /\ gpio_log[2].ret = EER_HAL_OK
    /\ GpioPair("toggle", "toggle")
         => /\ gpio_log[2].out = gpio_log[1].before
            /\ gpio_log[2].out # gpio_log[1].out
            /\ gpio_log[1].ret = EER_HAL_OK /\ gpio_log[2].ret = EER_HAL_OK

\* two toggles of output pin 5, which was low, have left it low again
C25_Witness ==
    /\ GpioPair("toggle", "toggle")
    /\ gpio_log[2].pin = 5
    /\ ~gpio_log[1].before
    /\ gpio_log[1].out
    /\ ~bit_get(gpio_port, 5)

\* the other slots and their interrupt enable bits are as before the step
TimerOthersUnchanged(slot) ==
    \A o \in TimerSlots \ {slot} :
       /\ timer_callbacks'[o] = timer_callbacks[o]
       /\ timer_enable_bit(o) \in timsk' <=> timer_enable_bit(o) \in timsk

\* C26: a Timer register_callback or unregister_callback for one source
\* leaves the other three slots and interrupt enable bits unchanged; a UART
\* register or unregister of the receive callback leaves the transmit slot
\* and TXCIE0 unchanged, and of the transmit callback the receive slot and
\* RXCIE0.
C26_SlotsIndependent ==
    [][/\ \A src \in TimerSources :
            ((\E handler \in TimerHandlers, user_data \in UserData :
                 avr_timer_register_callback(src[1], src[2], handler,
                                             user_data))
               \/ avr_timer_unregister_callback(src[1], src[2]))
            => TimerOthersUnchanged(timer_slot(src[1], src[2]))
       /\ ((\E u \in UserData : avr_uart_register_rx_callback("h1", u))
             \/ avr_uart_unregister_rx_callback)
            => /\ uart_callbacks'.tx_handler = uart_callbacks.tx_handler
               /\ uart_callbacks'.tx_user_data = uart_callbacks.tx_user_data
               /\ "TXCIE0" \in ucsrb' <=> "TXCIE0" \in ucsrb
       /\ ((\E u \in UserData : avr_uart_register_tx_callback("h1", u))
             \/ avr_uart_unregister_tx_callback)
            => /\ uart_callbacks'.rx_handler = uart_callbacks.rx_handler
               /\ uart_callbacks'.rx_user_data = uart_callbacks.rx_user_data
               /\ "RXCIE0" \in ucsrb' <=> "RXCIE0" \in ucsrb]_vars

\* the overflow callback was unregistered while the compare-A and capture
\* callbacks stay registered and enabled
C26_Witness ==
    /\ timer_last.op = "unregister_callback"
    /\ timer_last.ret = EER_HAL_OK
    /\ timer_callbacks["overflow"] = EmptySlot
    /\ timer_callbacks["compare_a"].handler # NULL
    /\ timer_callbacks["capture"].handler # NULL
    /\ timsk = {"OCIE1A", "ICIE1"}

\* the low three bytes of the counter as a number
TickLow24(t) == t[1] + 256 * t[2] + 65536 * t[3]

C28_ScanBoundedByMaxDevices ==
    /\ i2c_scan.count <= i2c_scan.max_devices
    /\ Len(i2c_scan.devices) = i2c_scan.count
    /\ i2c_scan.found_devices <= i2c_scan.max_devices
    /\ i2c_scan.ret = EER_HAL_OK
         => i2c_scan.found_devices = Len(i2c_scan.devices)
    /\ i2c_scan.pc = "wait" => i2c_scan.count < i2c_scan.max_devices

\* with devices at 8 and 0x77 and max_devices = 1 the scan has returned
\* after a single probe
C28_Witness ==
    /\ i2c_scan.pc = "done"
    /\ i2c_scan.ret = EER_HAL_OK
    /\ i2c_scan.max_devices = 1
    /\ i2c_scan.found_devices = 1
    /\ i2c_scan.devices = <<8>>
    /\ i2c_scan.starts = 1
    /\ i2c_present = {8, 119}

\* ======================================================================
\* register_callback statement by statement, against the interrupt
\* handlers (timer.c, uart.c)
\* ======================================================================

\* the registrations the program makes: each handler with its own context
RegPairs == {<<"h1", "u1">>, <<"h2", "u2">>}

RegDrivers == {"timer", "uart"}

\* entry of avr_timer_register_callback(EER_TIMER_EVENT_OVERFLOW, 0, ...) or
\* of avr_uart_register_rx_callback with a handler: the NULL check passes
Reg_Begin(driver, pair) ==
    /\ reg_call.pc = "idle"
    /\ ForegroundFree
    /\ reg_call' = [pc |-> "handler", driver |-> driver,
                    handler |-> pair[1], user_data |-> pair[2]]
    /\ reg_pairs' = reg_pairs \cup {<<driver, pair[1], pair[2]>>}
    /\ UNCHANGED <<timerVars, uartVars, notReg>>

\* the statement after the one at pc
reg_next_pc(pc) ==
    CASE pc = "handler" -> "user_data"
      [] pc = "user_data" -> "enable"
      [] pc = "enable" -> "idle"

reg_after(call) ==
    IF reg_next_pc(call.pc) = "idle" THEN RegIdle
    ELSE [call EXCEPT !.pc = reg_next_pc(call.pc)]

\* timer_callbacks.overflow_handler = handler;
\* timer_callbacks.overflow_user_data = user_data;
\* *timer1.timsk |= (1 << TOIE1);  return EER_HAL_OK;
Timer_RegStep ==
    /\ reg_call.driver = "timer"
    /\ CASE reg_call.pc = "handler" ->
              /\ timer_callbacks' = [timer_callbacks EXCEPT
                      !["overflow"].handler = reg_call.handler]
              /\ UNCHANGED timsk
         [] reg_call.pc = "user_data" ->
              /\ timer_callbacks' = [timer_callbacks EXCEPT
                      !["overflow"].user_data = reg_call.user_data]
              /\ UNCHANGED timsk
         [] reg_call.pc = "enable" ->
              /\ timsk' = timsk \cup {"TOIE1"}
              /\ UNCHANGED timer_callbacks
    /\ reg_call' = reg_after(reg_call)
    /\ UNCHANGED <<tccra, tccrb, tcnt, icr, ocra, ocrb, timer_config,
                   timer_last, reg_pairs, uartVars, notReg>>

\* uart_callbacks.rx_handler = handler;
\* uart_callbacks.rx_user_data = user_data;
\* *uart0.ucsrb |= (1 << RXCIE0);  return EER_HAL_OK;
Uart_RegStep ==
    /\ reg_call.driver = "uart"
    /\ CASE reg_call.pc = "handler" ->
              /\ uart_callbacks' = [uart_callbacks EXCEPT
                      !.rx_handler = reg_call.handler]
              /\ UNCHANGED ucsrb
         [] reg_call.pc = "user_data" ->
              /\ uart_callbacks' = [uart_callbacks EXCEPT
                      !.rx_user_data = reg_call.user_data]
              /\ UNCHANGED ucsrb
         [] reg_call.pc = "enable" ->
              /\ ucsrb' = ucsrb \cup {"RXCIE0"}
              /\ UNCHANGED uart_callbacks
    /\ reg_call' = reg_after(reg_call)
    /\ UNCHANGED <<ucsra, udr, rx_buffer, rx_head, rx_tail, uart_events,
                   reg_pairs, timerVars, notReg>>

RegFree == reg_call.pc = "idle"

NextReg ==
    \/ RegFree /\ ucsrb = {} /\ avr_uart_init
    \/ RegFree /\ ~sreg_I /\ avr_system_enable_interrupts
    \/ \E driver \in RegDrivers, pair \in RegPairs : Reg_Begin(driver, pair)
    \/ Timer_RegStep
    \/ Uart_RegStep
    \/ TIMER1_OVF_vect
    \/ rx_head < MaxLifeBytes /\ UartByteArrives
    \/ USART_RX_vect

SpecReg == Init /\ [][NextReg]_vars

\* C29: a callback is invoked with the user_data of the registration its
\* handler came from, also when the interrupt runs while register_callback
\* is replacing a registration whose interrupt is enabled: the pair the
\* overflow handler and the receive handler pass on is one that was
\* registered.
C29_CallbackPairConsistent ==
    [][/\ (TIMER1_OVF_vect /\ timer_callbacks["overflow"].handler # NULL)
            => <<"timer", timer_callbacks["overflow"].handler,
                 timer_callbacks["overflow"].user_data>> \in reg_pairs
       /\ (USART_RX_vect /\ uart_callbacks.rx_handler # NULL)
            => <<"uart", uart_events'[1].event.handler,
                 uart_events'[1].event.user_data>> \in reg_pairs]_vars

\* C30: in the Timer, ADC, UART and SPI drivers, whenever a callback slot
\* holds a handler the interrupt enable bit of its source is set, after any
\* sequence of init, register, unregister and deinit calls.
C30_HandlerImpliesEnabled ==
    /\ \A slot \in TimerSlots :
          timer_callbacks[slot].handler # NULL
            => timer_enable_bit(slot) \in timsk
    /\ (\E ch \in DOMAIN adc_irq_handlers :
           adc_irq_handlers[ch].handler # NULL) => "ADIE" \in adcsra
    /\ uart_callbacks.rx_handler # NULL => "RXCIE0" \in ucsrb
    /\ uart_callbacks.tx_handler # NULL => "TXCIE0" \in ucsrb
    /\ spi_callback.handler # NULL => "SPIE" \in spcr

\* C31: the driver never drains the ring buffer: rx_tail stays 0, rx_head
\* stays within 0..63 and counts the bytes stored since init; the receive
\* interrupt stores a byte at position rx_head while rx_head < 63, that is
\* the first 63 bytes at positions 0..62 in arrival order, and drops every
\* byte after them until init resets the head; stored bytes are not
\* overwritten.
C31_RingBufferNeverDrained ==
    /\ [](rx_tail = 0 /\ rx_head \in 0..(RX_BUFFER_SIZE - 1))
    /\ [][/\ USART_RX_vect =>
               IF rx_head < RX_BUFFER_SIZE - 1
               THEN /\ rx_buffer' = [rx_buffer EXCEPT ![rx_head] = udr]
                    /\ rx_head' = rx_head + 1
               ELSE UNCHANGED <<rx_buffer, rx_head>>
          /\ rx_head' # rx_head =>
               \/ USART_RX_vect
               \/ rx_head' = 0 /\ rx_buffer' = rx_buffer
          /\ \A k \in 0..(rx_head - 1) :
               rx_head' # 0 => rx_buffer'[k] = rx_buffer[k]]_vars

\* the marker byte, received as the 63rd byte after init, is at position
\* 62 and the buffer takes no more
C31_Witness ==
    /\ rx_head = RX_BUFFER_SIZE - 1
    /\ rx_buffer[62] = 165
    /\ \A k \in 0..61 : rx_buffer[k] = 0
    /\ rx_tail = 0

\* C32: the index rx_head - 1 from which the receive interrupt builds the
\* callback's data reference lies within 0..63.
C32_CallbackIndexInBuffer ==
    [][USART_RX_vect =>
         /\ rx_head' - 1 \in 0..(RX_BUFFER_SIZE - 1)
         /\ uart_callbacks.rx_handler # NULL =>
               /\ uart_events'[1].event.index = rx_head' - 1
               /\ uart_events'[1].event.index \in 0..(RX_BUFFER_SIZE - 1)]_vars

\* the first byte after init was handed to the callback from position 0
C32_Witness ==
    /\ uart_events # <<>>
    /\ uart_events[1].event.handler = "h1"
    /\ uart_events[1].event.index = 0
    /\ rx_head = 1

\* C33: whenever configure returns EER_HAL_NOT_SUPPORTED or
\* EER_HAL_INVALID_PARAM, DDR and PORT are as they were before the call.
C33_RefusedConfigureChangesNothing ==
    [][\A is_null \in BOOLEAN, pin \in GpioPins, mode \in GpioModes,
          trigger \in GpioTriggers :
          (avr_gpio_configure(is_null, pin, mode, trigger)
             /\ GpioLast'.ret \in {EER_HAL_NOT_SUPPORTED,
                                   EER_HAL_INVALID_PARAM})
          => gpio_ddr' = gpio_ddr /\ gpio_port' = gpio_port]_vars

\* C34: when the ADC was initialised in SINGLE mode, a run of the
\* conversion-complete interrupt handler does not set ADSC, with or without
\* a registered callback; the handler starts the next conversion in
\* CONTINUOUS mode only.
C34_SingleModeDoesNotRestart ==
    [][(ADC_vect /\ adc_mode = "EER_ADC_MODE_SINGLE")
         => ("ADSC" \in adcsra' => "ADSC" \in adcsra)]_vars

(***************************************************************************)
(* Power driver: wakeup record, lost wakeups, reported mode                *)
(***************************************************************************)
\* the pairs a wake handler writes in one piece, and the initial pair
WakeupPairs ==
    {[source |-> "EER_WAKEUP_PIN", pin_or_id |-> 0],
     [source |-> "EER_WAKEUP_PIN", pin_or_id |-> 1],
     [source |-> "EER_WAKEUP_TIMER", pin_or_id |-> 2],
     [source |-> "EER_WAKEUP_WATCHDOG", pin_or_id |-> 0]}

\* C35: the (source, pin_or_id) pair get_wakeup_source returns with OK is a
\* pair one wake handler wrote together (PIN/0, PIN/1, TIMER/2, WATCHDOG/0)
\* or the initial pair, however the wake interrupts interleave with the
\* call.
C35_WakeupPairNotTorn ==
    (/\ power_call.op = "get_wakeup_source"
     /\ power_call.pc = "done"
     /\ power_call.ret = EER_HAL_OK)
    => power_call.out \in WakeupPairs

\* a set_mode call to a sleep variant, with each wake interrupt taken at
\* most once while the call runs; the CPU executes the next statement
\* whenever it is not asleep
wake_once(isr) ==
    /\ (power_call.op = "set_mode" /\ power_call.pc = "run") => wake_count = 0
    /\ isr

NextWake ==
    \/ Power_Call
    \/ Power_Step
    \/ Power_ReadStep
    \/ Power_Return
    \/ avr_system_disable_interrupts
    \/ avr_system_enable_interrupts
    \/ wake_once(INT0_vect)
    \/ wake_once(INT1_vect)
    \/ wake_once(TIMER2_OVF_vect)
    \/ wake_once(WDT_vect)

SpecWake ==
    /\ Init
    /\ [][NextWake]_vars
    /\ WF_vars(Power_Step)
    /\ WF_vars(Power_ReadStep)

\* C36: no lost wakeup: when an enabled wake source has raised its
\* interrupt exactly once after set_mode(SLEEP, DEEP_SLEEP or STANDBY) was
\* called, at whatever point of the call, set_mode eventually returns.
C36_NoLostWakeup ==
    (/\ power_call.op = "set_mode"
     /\ power_call.pc = "run"
     /\ wake_count = 1)
    ~> (power_call.op = "set_mode" /\ power_call.pc = "done")

\* C37: whenever the foreground program asks after set_mode returned,
\* get_mode reports RUN and get_power_consumption reports the RUN estimate
\* (the processor is awake and running); set_mode with an invalid mode
\* returns INVALID_PARAM and leaves the mode variable unchanged.
C37_ModeReportsActualMode ==
    [][/\ avr_power_get_mode(FALSE)
          => power_call'.out = "EER_POWER_MODE_RUN"
       /\ avr_power_get_power_consumption(FALSE)
          => power_call'.out = power_estimate("EER_POWER_MODE_RUN")
       /\ avr_power_set_mode(InvalidPowerMode)
          => /\ power_call'.ret = EER_HAL_INVALID_PARAM
             /\ current_power_mode' = current_power_mode]_vars

\* C38: a blocking receive(data, n, 0) that returns OK has stored the first
\* n bytes that arrived for it, in arrival order, also with a receive
\* callback registered and the receive-complete interrupt enabled: the
\* interrupt handler takes none of them.
C38_ReceiveGetsArrivedBytes ==
    (/\ uart_call.op = "receive"
     /\ uart_call.pc = "done"
     /\ uart_call.timeout = 0
     /\ uart_call.ret = EER_HAL_OK)
    => /\ Len(uart_arrived) >= uart_call.size
       /\ uart_rx = UartPrefix(uart_arrived, uart_call.size)

\* C39: in PWM mode, whatever init, set_period and set_pwm_duty_cycle calls
\* came before, the compare register a set_pwm_duty_cycle call writes (the
\* call returns OK) is at most the value ICR1 holds, for every period init
\* accepts.
C39_CompareAtMostTop ==
    [][\A channel \in {0, 1}, d \in DutyCycles :
         (/\ avr_timer_set_pwm_duty_cycle(channel, d)
          /\ timer_last'.ret = EER_HAL_OK)
         => (IF channel = 0 THEN ocra' ELSE ocrb') <= icr']_vars

====
